---- MODULE Spec2Model ----
(***************************************************************************)
(* Model of the local music player: the lyric timeline (parseLrc,          *)
(* normalizeLyrics, LyricsView, LyricLineRow), the audio-reactive          *)
(* rendering layers (Spectrum, Visualizer) and the App's handlers for      *)
(* songs, playback, generated lyrics and the toolbar popovers.             *)
(*                                                                         *)
(* Lyric times are integers in units of 0.1 s (10.0 s is 100, 2.0 s is     *)
(* 20, 0.1 s is 1); the arithmetic on them is exact, where the program     *)
(* computes in IEEE doubles.                                               *)
(***************************************************************************)
EXTENDS Integers, Sequences, FiniteSets, TLC

VARIABLES
  tempLyrics,    \* parseLrc: the (time, text) pairs the regex matched
  lyrics,        \* App state `lyrics`: the result of parseLrc
  fixedLyrics,   \* LyricsView: useMemo(normalizeLyrics(lyrics))
  lrcPc,         \* "read" -> "parsed" -> "rendered"
  currentTime,   \* App state `currentTime` (playback position)
  lyricsOffset,  \* App state `lyricsOffset`
  rows,          \* LyricsView: the props each mounted LyricLineRow last
                 \* rendered with (React.memo keeps a skipped row's output)
  mounted,       \* App, and with it Visualizer and Spectrum, are mounted
  playbackState, \* App state `playbackState`
  playPromise,   \* handleFileChange: audio.play() is "pending" or "none"
  audio,         \* the <audio> element: "empty" (no src), "loading" (play()
                 \* pending), "playing", "paused", "failed" or "ended"
  analyser,      \* App state `analyser`: "null" or "AnalyserNode"
  showRain,      \* App state `showRain` (Spectrum's enableRain)
  showFireworks, \* App state `showFireworks` (Spectrum's enableFireworks)
  showBokeh,     \* App state `showBokeh` (Spectrum's enableBokeh)
  spectrumBrightness, \* App state `spectrumBrightness`, in tenths
  innerHeight,   \* window.innerHeight, px
  song,          \* the frames the analyser delivers while the song plays
  layers,        \* the refs, effects and canvases of the two layers, and
                 \* the browser's animation-frame callback list
  songMetadata,  \* App state `song`: << >> for null, or the loaded song
  geminiLoading, \* App state `geminiLoading`
  generateLyricsCalls, \* handleGenerateLyrics: the songs whose lyric text
                 \* is awaited
  customColor,   \* App state `customColor`
  fontSizeScale, \* App state `fontSizeScale`, in tenths
  showColorPicker,   \* App state `showColorPicker`
  showBgColorPicker, \* App state `showBgColorPicker`
  showSettings       \* App state `showSettings`

lyricVars == <<tempLyrics, lyrics, fixedLyrics, lrcPc, currentTime, lyricsOffset, rows>>

songVars == <<songMetadata, geminiLoading, generateLyricsCalls>>

popoverVars == <<showColorPicker, showBgColorPicker, showSettings>>

appVars == <<songMetadata, geminiLoading, generateLyricsCalls, customColor,
             fontSizeScale, showColorPicker, showBgColorPicker, showSettings>>

effectSettings == <<showFireworks, showBokeh, spectrumBrightness, innerHeight, song>>

layerVars == <<mounted, playbackState, playPromise, audio, analyser, showRain,
               showFireworks, showBokeh, spectrumBrightness, innerHeight, song, layers>>

vars == <<tempLyrics, lyrics, fixedLyrics, lrcPc, currentTime, lyricsOffset, rows,
          mounted, playbackState, playPromise, audio, analyser, showRain,
          showFireworks, showBokeh, spectrumBrightness, innerHeight, song, layers,
          songMetadata, geminiLoading, generateLyricsCalls, customColor,
          fontSizeScale, showColorPicker, showBgColorPicker, showSettings>>

----------------------------------------------------------------------------
(* Bounds of the model *)

MaxLines == 3          \* lines of an .lrc file, pure-function checks
MaxSyncLines == 2      \* lines of an .lrc file, playback checks
MaxTime == 160         \* last playback position, 0.1 s units
MaxOffsetSteps == 1    \* presses of an offset button in one direction

(* Program constants, in 0.1 s units *)

GapThreshold == 100    \* timeDiff > 10.0
DotsDuration == 20     \* 2.0 s left for the dots
ParseLastDefault == 50 \* 5.0 s for the last line in parseLrc
MIN_DURATION == 20     \* normalizeLyrics
LAST_DEFAULT == 50     \* normalizeLyrics
MinGap == 1            \* duration <= 0.1
DefaultDuration == 30  \* l.duration || 3
OffsetStep == 5        \* adjustOffset(+-0.5)
SeekStep == 10         \* the range input moves in whole seconds

Dots == "..."          \* the transition line's text (three bullets)

LineTimes == {0, 1, 2, 100, 102, 150}
SyncTimes == {0, 3, 50, 102}
Texts == {"a", "hi"}

Min(a, b) == IF a < b THEN a ELSE b
Max(a, b) == IF a > b THEN a ELSE b
Abs(a) == IF a < 0 THEN -a ELSE a

(* Every sequence of at most n (time, text) pairs. *)
LrcInputs(times, texts, n) ==
  UNION { [1..k -> [time : times, text : texts]] : k \in 0..n }

----------------------------------------------------------------------------
(* parseLrc, src/App.tsx:29-60 *)

(* Mutant: the last line gets no default. *)
TimeDiffNoDefault(temp, i) ==
  IF i < Len(temp) THEN temp[i + 1].time - temp[i].time ELSE 0

TimeDiff(temp, i) ==
  IF i < Len(temp) THEN temp[i + 1].time - temp[i].time ELSE ParseLastDefault

(* Mutant: a gap of exactly 10.0 s counts as an instrumental break. *)
IsInstrumentalGapInclusive(timeDiff) == timeDiff >= GapThreshold

IsInstrumentalGap(timeDiff) == timeDiff > GapThreshold

PushLine(temp, i) ==
  LET line == temp[i]
      timeDiff == TimeDiff(temp, i)
  IN IF IsInstrumentalGap(timeDiff)
       THEN << [time |-> line.time, text |-> line.text,
                duration |-> timeDiff - DotsDuration],
               [time |-> line.time + (timeDiff - DotsDuration), text |-> Dots,
                duration |-> DotsDuration] >>
       ELSE << [time |-> line.time, text |-> line.text, duration |-> timeDiff] >>

RECURSIVE ParseLoop(_, _)
ParseLoop(temp, i) ==
  IF i > Len(temp) THEN << >>
  ELSE PushLine(temp, i) \o ParseLoop(temp, i + 1)

parseLrc(temp) == ParseLoop(temp, 1)

(* normalizeLyrics, src/unnamed/part_000:569-582.  `x || y` and `!x` treat *)
(* the number 0 as false.                                                  *)

Falsy(n) == n = 0

(* Mutant: the computed gap is propagated unguarded. *)
IsDegenerateNever(duration) == FALSE

IsDegenerate(duration) == Falsy(duration) \/ duration <= MinGap

(* Mutant: a non-last line keeps the duration it came with. *)
NormalizeLineTrusting(ls, i) ==
  [ls[i] EXCEPT !.duration =
     IF Falsy(ls[i].duration)
       THEN (IF i = Len(ls) THEN LAST_DEFAULT ELSE MIN_DURATION)
       ELSE ls[i].duration]

NormalizeLine(ls, i) ==
  IF i = Len(ls)
    THEN [ls[i] EXCEPT !.duration =
            IF Falsy(ls[i].duration) THEN LAST_DEFAULT ELSE ls[i].duration]
    ELSE LET duration == ls[i + 1].time - ls[i].time
         IN [ls[i] EXCEPT !.duration =
               IF IsDegenerate(duration) THEN MIN_DURATION ELSE duration]

normalizeLyrics(ls) == [i \in 1..Len(ls) |-> NormalizeLine(ls, i)]

----------------------------------------------------------------------------
(* LyricsView and LyricLineRow, src/unnamed/part_000:585-802.  Indices are *)
(* the program's: the first line is 0 and findIndex gives -1 for none.     *)

(* App.tsx:593: currentTime={currentTime + lyricsOffset} *)
EffectiveTime == currentTime + lyricsOffset

OrDefault(duration) == IF Falsy(duration) THEN DefaultDuration ELSE duration

(* Mutant: the interval is closed at its end. *)
IntervalContainsClosed(l, T) == T >= l.time /\ T <= l.time + OrDefault(l.duration)

IntervalContains(l, T) == T >= l.time /\ T < l.time + OrDefault(l.duration)

RECURSIVE FindIndexFrom(_, _, _)
FindIndexFrom(ls, T, i) ==
  IF i > Len(ls) THEN -1
  ELSE IF IntervalContains(ls[i], T) THEN i - 1
  ELSE FindIndexFrom(ls, T, i + 1)

ActiveIndex(ls, T) == FindIndexFrom(ls, T, 1)

activeIndex == ActiveIndex(fixedLyrics, EffectiveTime)

(* The props LyricsView hands to row i (0-based), part_000:789-797 *)
IsActive(i) == i = activeIndex
IsPast(i) == i < activeIndex
Distance(i) == Abs(i - activeIndex)
RowTime(i) == IF i = activeIndex THEN EffectiveTime ELSE 0

(* The props LyricsView hands to its rows in one render, part_000:783-799, *)
(* with the active index it found (-1 for none)                            *)
RowProps(ls, active, T, fillColor, scale) ==
  [n \in 1..Len(ls) |->
     [line |-> ls[n],
      isActive |-> (n - 1 = active),
      isPast |-> (n - 1 < active),
      distance |-> Abs(n - 1 - active),
      fillColor |-> fillColor,
      fontSizeScale |-> scale,
      currentTime |-> IF n - 1 = active THEN T ELSE 0]]

(* Mutant: the comparator ignores the font-size scale. *)
PropsAreEqualButScale(prev, next) ==
  IF prev.isActive # next.isActive THEN FALSE
  ELSE IF prev.isActive /\ next.isActive THEN prev.currentTime = next.currentTime
  ELSE /\ prev.isPast = next.isPast
       /\ prev.distance = next.distance
       /\ prev.fillColor = next.fillColor

(* The comparator of memo(LyricLineRow), part_000:706-717: TRUE skips the  *)
(* row's render.                                                           *)
PropsAreEqual(prev, next) ==
  IF prev.isActive # next.isActive THEN FALSE
  ELSE IF prev.isActive /\ next.isActive THEN prev.currentTime = next.currentTime
  ELSE /\ prev.isPast = next.isPast
       /\ prev.distance = next.distance
       /\ prev.fillColor = next.fillColor
       /\ prev.fontSizeScale = next.fontSizeScale

(* React.memo on rows keyed by their index: a row that was mounted and     *)
(* whose comparator returns true keeps the output of its last render; any  *)
(* other row renders with the new props.                                   *)
MemoRows(old, new) ==
  [n \in 1..Len(new) |->
     IF n <= Len(old) /\ PropsAreEqual(old[n], new[n]) THEN old[n] ELSE new[n]]

(* LyricsView, part_000:749-799: the spinner while loading, the            *)
(* placeholder without lyrics (the rows unmount), or the rows.             *)
LyricsViewRows(old, raw, ls, T, fillColor, scale, isLoading) ==
  IF isLoading \/ Len(raw) = 0 THEN << >>
  ELSE MemoRows(old, RowProps(ls, ActiveIndex(ls, T), T, fillColor, scale))

(* The songs the user's audio files name, as handleFileChange splits a     *)
(* file name into artist and title, App.tsx:247-254                        *)
Songs == {[artist |-> "A", title |-> "x"], [artist |-> "B", title |-> "y"]}


----------------------------------------------------------------------------
(* Spectrum and Visualizer, src/unnamed/part_000:53-548.                   *)
(*                                                                         *)
(* Lengths on the canvas are kept exact: a peak or bar height is an        *)
(* integer number of 1/PeakDen px, a rain drop's y of 1/YDen px.           *)
(* Math.pow(percent, 1.4) is irrational, so a bar's height is rounded to   *)
(* 0.05 px before it enters this arithmetic.                               *)

MaxDraws == 4          \* draw calls of the Spectrum layer in one run

ViewHeight == 20       \* window.innerHeight of the runs that keep their history, px
TallHeight == 1000     \* window.innerHeight of the runs that do not, px
barsToRender == 64
RainPoolSize == 150
BlobCount == 5
bassRange == 8
midRangeStart == 20
midRangeEnd == 80
highRangeStart == 80
highRangeEnd == 150
ByteMax == 255
frequencyBinCount == 1024   \* fftSize 2048

PeakDen == 20 * 20 * 20 * 20 * 20 * 20
YDen == bassRange * 17      \* normBass * 15 = bassSum / (8 * 255) * 15

Layers == {"Visualizer", "Spectrum"}

(* A frequency frame, as getByteFrequencyData fills dataArray: one         *)
(* magnitude for bins 0-19, one for bins 20-79, one for the bins above.    *)
ZeroFrame == [lo |-> 0, mid |-> 0, hi |-> 0]
MixedFrame == [lo |-> 255, mid |-> 0, hi |-> 128]
FaintFrame == [lo |-> 2, mid |-> 2, hi |-> 2]
FrameSet == {ZeroFrame, MixedFrame}

Bin(frame, i) ==
  IF i < midRangeStart THEN frame.lo
  ELSE IF i < midRangeEnd THEN frame.mid
  ELSE frame.hi

(* for (let i = from; i < to; i++) energy += dataArray[i] *)
RECURSIVE SumBins(_, _, _)
SumBins(frame, from, to) ==
  IF from >= to THEN 0 ELSE Bin(frame, from) + SumBins(frame, from + 1, to)

(* A band energy normalised by 255, as the fraction num / den. *)
(* Mutant: the high band is averaged over the bass band's width. *)
BandEnergyBassWidth(isPlaying, frame, from, to) ==
  [num |-> IF isPlaying THEN SumBins(frame, from, to) ELSE 0,
   den |-> bassRange * ByteMax]

BandEnergy(isPlaying, frame, from, to) ==
  [num |-> IF isPlaying THEN SumBins(frame, from, to) ELSE 0,
   den |-> (to - from) * ByteMax]

(* Spectrum draw, part_000:160-179 *)
SpectrumBands(isPlaying, frame) ==
  [bass |-> BandEnergy(isPlaying, frame, 0, bassRange),
   mid |-> BandEnergy(isPlaying, frame, midRangeStart, midRangeEnd),
   high |-> BandEnergy(isPlaying, frame, highRangeStart, highRangeEnd)]

(* Visualizer draw, part_000:496-504 *)
VisualizerBands(isPlaying, frame) ==
  [bass |-> BandEnergy(isPlaying, frame, 0, bassRange)]

(* Rain, part_000:76-88 and 188-207.  Math.random is a pool drawn from a   *)
(* small family, one pool per seed; x and opacity play no part in the      *)
(* motion and are left out.                                                *)
RainSeeds == {0, 1}

NewDrop(i, seed) ==
  [y |-> ((i * (7 + seed)) % innerHeight) * YDen,
   length |-> 10 + ((i * 3 + seed) % 20),
   speed |-> 5 + ((i + seed) % 5)]

(* Mutant: the pool is filled again although it is not empty. *)
InitRainPoolAgain(rainRef, seed) ==
  rainRef \o [i \in 1..RainPoolSize |-> NewDrop(i, seed)]

InitRainPool(rainRef, seed) ==
  IF Len(rainRef) = 0
    THEN [i \in 1..RainPoolSize |-> NewDrop(i, seed)]
    ELSE rainRef

(* drop.y += drop.speed + normBass * 15; past the bottom it restarts above *)
(* the top.                                                                *)
MoveDrop(drop, bassSum) ==
  LET y == drop.y + drop.speed * YDen + bassSum
  IN IF y > innerHeight * YDen
       THEN [drop EXCEPT !.y = -(drop.length * YDen)]
       ELSE [drop EXCEPT !.y = y]

(* Mutant: a drop past the bottom is removed from the pool. *)
RainTickDropping(rainRef, enableRain, bassSum) ==
  IF enableRain
    THEN SelectSeq([i \in 1..Len(rainRef) |-> MoveDrop(rainRef[i], bassSum)],
                   LAMBDA d : d.y >= 0)
    ELSE rainRef

RainTick(rainRef, enableRain, bassSum) ==
  IF enableRain
    THEN [i \in 1..Len(rainRef) |-> MoveDrop(rainRef[i], bassSum)]
    ELSE rainRef

(* Bars, part_000:106-113 and 325-393.  Bars are 0..63 as in the program;  *)
(* peaksRef and canvasBars hold bar i at position i + 1.                   *)
step == (frequencyBinCount \div 2) \div barsToRender

BarValue(isPlaying, frame, i) == IF isPlaying THEN Bin(frame, i * step) ELSE 0

(* boost = 1 + (i < 10 ? 0.3 : 0) + (i > 50 ? 0.5 : 0), in tenths *)
Boost10(i) == 10 + (IF i < 10 THEN 3 ELSE 0) + (IF i > 50 THEN 5 ELSE 0)

(* Math.pow(value / 255, 1.4) in thousandths, for the magnitudes of the     *)
(* frames                                                                  *)
Pow14Milli(value) ==
  CASE value = 0 -> 0
    [] value = 2 -> 1
    [] value = 128 -> 381
    [] value = 255 -> 1000

(* max(2, pow(percent, 1.4) * height * 0.45 * boost), rounded to 1/20 px *)
BarHeight20(value, i) ==
  Max(2 * 20,
      (Pow14Milli(value) * innerHeight * 45 * Boost10(i) * 20 + 500000) \div 1000000)

BarHeight(value, i) == BarHeight20(value, i) * (PeakDen \div 20)

(* peak *= 0.95; peak -= 0.5.  The product is split so that it stays in    *)
(* 32 bits; it is exact while the peak is a multiple of 20 / PeakDen.      *)
DecayPeak(peak) ==
  (peak \div 20) * 19 + ((peak % 20) * 19) \div 20 - PeakDen \div 2

(* Mutant: the peak decays by the factor alone. *)
UpdatePeakNoSubtract(peak, barHeight) ==
  IF barHeight > peak THEN barHeight ELSE (peak \div 20) * 19

UpdatePeak(peak, barHeight) ==
  IF barHeight > peak THEN barHeight ELSE DecayPeak(peak)

InitPeaks(peaksRef) ==
  IF Len(peaksRef) # barsToRender THEN [i \in 1..barsToRender |-> 0] ELSE peaksRef

(* Background blobs, part_000:441-455 and 509-519: only the phase is kept, *)
(* in units of 1 / PhaseDen rad; the positions follow it through sin and   *)
(* cos.                                                                    *)
PhaseDen == 100 * bassRange * ByteMax

InitBlobs(blobsRef) ==
  IF Len(blobsRef) = 0 THEN [i \in 1..BlobCount |-> [phase |-> 0]] ELSE blobsRef

(* blob.phase += 0.005 + normBass * 0.01 *)
BlobTick(blobsRef, isPlaying, bassSum) ==
  IF isPlaying
    THEN [i \in 1..Len(blobsRef) |->
            [phase |-> blobsRef[i].phase + (PhaseDen \div 200) + bassSum]]
    ELSE blobsRef

(* Fireworks and bokeh, part_000:210-323.  Positions and velocities are    *)
(* integers in 1/PxDen px, a particle's alpha in 1/ParticleAlphaDen, a     *)
(* glow's alpha in 1/GlowDen, a glow's lifetime in half ticks.  The        *)
(* outcomes of Math.random in one draw are the record `random`: launch     *)
(* holds the rocket whose launch test passed, sparkle the lifetime of the  *)
(* glow whose spawn test passed, and each is empty when the test failed.   *)
(* A rocket's colour and a glow's place and size play no part and are left *)
(* out.                                                                    *)
MaxLive == 1           \* rockets, explosions and glows alive at a time

PxDen == 20
ParticleAlphaDen == 200
ParticleCount == 40
GlowDen == 2 * 30 * 10 * (highRangeEnd - highRangeStart) * ByteMax
AlphaDen == GlowDen * 10    \* ctx.globalAlpha, in 1/AlphaDen

NoRandom == [launch |-> << >>, sparkle |-> << >>]

(* y: height, targetY: height * 0.2 + random * height * 0.4,               *)
(* vy: -(random * 6 + 12): a slow rocket with a high target, which stalls  *)
(* below it, and a fast one with a low target, which reaches it.           *)
LaunchSet ==
  {[x |-> 0, y |-> innerHeight * PxDen, targetY |-> innerHeight * 4, vy |-> -12 * PxDen],
   [x |-> 300 * PxDen, y |-> innerHeight * PxDen,
    targetY |-> innerHeight * 12 - 1, vy |-> -18 * PxDen + 4]}

(* maxLife: 90 + random * 60, in half ticks: 90 and 149.5 *)
LifeSet == {180, 299}

Live(w) ==
  Len(w.rocketsRef) + Len(w.sparklesRef) + (IF w.particlesRef = << >> THEN 0 ELSE 1)

Room(w) == Live(w) < MaxLive

(* Math.random() < 0.01 + normBass * 0.08 can pass with any frame,         *)
(* Math.random() < normMid * 0.4 only when the mid band is not silent.     *)
RandomFor(w, c, frame) ==
  {NoRandom}
  \cup (IF c.enableFireworks /\ Room(w)
          THEN {[launch |-> <<r>>, sparkle |-> << >>] : r \in LaunchSet}
          ELSE {})
  \cup (IF c.enableBokeh /\ Room(w)
           /\ BandEnergy(c.isPlaying, frame, midRangeStart, midRangeEnd).num > 0
          THEN {[launch |-> << >>, sparkle |-> <<m>>] : m \in LifeSet}
          ELSE {})

(* Mutant: a rocket is launched while nothing plays. *)
LaunchPaused(rocketsRef, isPlaying, random) == rocketsRef \o random.launch

(* if (isPlaying && Math.random() < ...) rocketsRef.current.push(...) *)
Launch(rocketsRef, isPlaying, random) ==
  IF isPlaying THEN rocketsRef \o random.launch ELSE rocketsRef

(* rocket.y += rocket.vy; rocket.vy += 0.2 *)
MoveRocket(rocket) == [rocket EXCEPT !.y = @ + rocket.vy, !.vy = @ + 4]

(* Mutant: the rocket explodes once it is slower than 12 px a tick. *)
ExplodesBelowTwelve(rocket) == rocket.vy >= -12 * PxDen \/ rocket.y <= rocket.targetY

(* if (rocket.vy >= -2 || rocket.y <= rocket.targetY) *)
Explodes(rocket) == rocket.vy >= -2 * PxDen \/ rocket.y <= rocket.targetY

(* cos(angle) * speed and sin(angle) * speed for speed in [2, 8), px per   *)
(* tick: the particles of an explosion take these in turn.                 *)
Burst ==
  << <<2, 0>>, <<0, 3>>, <<-3, 4>>, <<4, -3>>, <<-5, 0>>, <<0, -6>>, <<3, 4>>, <<-4, -3>> >>

Explosion(rocket) ==
  [j \in 1..ParticleCount |->
     [x |-> rocket.x, y |-> rocket.y,
      vx |-> Burst[((j - 1) % Len(Burst)) + 1][1] * PxDen,
      vy |-> Burst[((j - 1) % Len(Burst)) + 1][2] * PxDen,
      alpha |-> ParticleAlphaDen]]

(* The rocket loop runs from the last rocket to the first. *)
RECURSIVE Explosions(_, _)
Explosions(moved, i) ==
  IF i = 0 THEN << >>
  ELSE (IF Explodes(moved[i]) THEN Explosion(moved[i]) ELSE << >>)
       \o Explosions(moved, i - 1)

(* Mutant: a particle loses 0.01 alpha a tick. *)
MoveParticleSlowFade(p) ==
  [p EXCEPT !.x = @ + p.vx, !.y = @ + p.vy, !.vy = @ + 3, !.alpha = @ - 2]

(* p.x += p.vx; p.y += p.vy; p.vy += 0.15; p.alpha -= 0.015 *)
MoveParticle(p) ==
  [p EXCEPT !.x = @ + p.vx, !.y = @ + p.vy, !.vy = @ + 3, !.alpha = @ - 3]

(* if (p.alpha <= 0) splice *)
ParticleDead(p) == p.alpha <= 0

(* 0.3 + normHigh * 0.4, times 10 * high.den *)
GlowFactor(high) == 3 * high.den + 4 * high.num

(* Mutant: the glow keeps the alpha of its spawn. *)
AgeGlowDark(glow, high) == [glow EXCEPT !.life = @ + 1]

(* p.life++ and the ramps of p.alpha, part_000:297-302 *)
AgeGlow(glow, high) ==
  LET life == glow.life + 1
  IN [glow EXCEPT
        !.life = life,
        !.alpha = IF life < 30 THEN 2 * life * GlowFactor(high)
                  ELSE IF 2 * life > glow.maxLife - 60
                    THEN (glow.maxLife - 2 * life) * GlowFactor(high)
                  ELSE @]

(* if (p.life >= p.maxLife) splice *)
GlowDead(glow) == 2 * glow.life >= glow.maxLife

(* if (isPlaying && Math.random() < normMid * 0.4) sparklesRef.current.push *)
Spawn(sparklesRef, isPlaying, random) ==
  IF isPlaying
    THEN sparklesRef \o [i \in 1..Len(random.sparkle) |->
                           [life |-> 0, maxLife |-> random.sparkle[i], alpha |-> 0]]
    ELSE sparklesRef

(* The canvas: an assignment to ctx.globalAlpha of a value outside [0, 1]  *)
(* is ignored.                                                             *)
SetGlobalAlpha(current, value) ==
  IF value >= 0 /\ value <= AlphaDen THEN value ELSE current

(* Math.min(1, Math.max(0, brightness)) *)
ClampBrightness(brightness) == Min(AlphaDen, Max(0, brightness * (AlphaDen \div 10)))

Reverse(seq) == [i \in 1..Len(seq) |-> seq[Len(seq) + 1 - i]]

(* ctx.globalAlpha = p.alpha * brightness; fill; ctx.globalAlpha =         *)
(* brightness, for each of the alphas asked for in turn: the alphas the    *)
(* fills were composited with, and the one the context is left with.  The  *)
(* context's alpha is always one it accepted, so the second test of the    *)
(* base case never decides.                                                *)
RECURSIVE FillEach(_, _, _)
FillEach(globalAlpha, asked, brightness) ==
  IF asked = << >> \/ globalAlpha < 0 \/ globalAlpha > AlphaDen
    THEN [globalAlpha |-> globalAlpha, filled |-> {}]
  ELSE LET at == SetGlobalAlpha(globalAlpha, Head(asked))
           rest == FillEach(SetGlobalAlpha(at, brightness * (AlphaDen \div 10)),
                            Tail(asked), brightness)
       IN [globalAlpha |-> rest.globalAlpha, filled |-> {at} \cup rest.filled]

(* The fireworks pass, part_000:210-279 *)
FireworksPass(w, c, random, globalAlpha) ==
  IF ~c.enableFireworks
    THEN [rocketsRef |-> w.rocketsRef, particlesRef |-> w.particlesRef,
          globalAlpha |-> globalAlpha, rockets |-> {}, particles |-> {}]
    ELSE
      LET launched == Launch(w.rocketsRef, c.isPlaying, random)
          moved == [i \in 1..Len(launched) |-> MoveRocket(launched[i])]
          pushed == w.particlesRef \o Explosions(moved, Len(moved))
          faded == [i \in 1..Len(pushed) |-> MoveParticle(pushed[i])]
          kept == SelectSeq(faded, LAMBDA p : ~ParticleDead(p))
          pass == FillEach(globalAlpha,
                           Reverse([i \in 1..Len(kept) |->
                                      kept[i].alpha * c.brightness
                                        * (AlphaDen \div (ParticleAlphaDen * 10))]),
                           c.brightness)
      IN [rocketsRef |-> SelectSeq(moved, LAMBDA r : ~Explodes(r)),
          particlesRef |-> kept,
          globalAlpha |-> pass.globalAlpha,
          rockets |-> IF moved = << >> THEN {} ELSE {globalAlpha},
          particles |-> pass.filled]

(* The bokeh pass, part_000:282-323 *)
BokehPass(w, c, random, high, globalAlpha) ==
  IF ~c.enableBokeh
    THEN [sparklesRef |-> w.sparklesRef, globalAlpha |-> globalAlpha, sparkles |-> {}]
    ELSE
      LET spawned == Spawn(w.sparklesRef, c.isPlaying, random)
          aged == [i \in 1..Len(spawned) |-> AgeGlow(spawned[i], high)]
          kept == SelectSeq(aged, LAMBDA p : ~GlowDead(p))
          pass == FillEach(globalAlpha,
                           Reverse([i \in 1..Len(kept) |-> kept[i].alpha * c.brightness]),
                           c.brightness)
      IN [sparklesRef |-> kept, globalAlpha |-> pass.globalAlpha,
          sparkles |-> pass.filled]

(* The state of the two layers.  A request in rafQueue carries the props   *)
(* its draw closure captured.  A run that keeps its history logs its draws *)
(* and numbers its requests and effects as the browser does, and is        *)
(* bounded by MaxDraws; a run that does not may go on for ever.            *)
ZeroBands ==
  [Visualizer |-> VisualizerBands(FALSE, ZeroFrame),
   Spectrum |-> SpectrumBands(FALSE, ZeroFrame)]

FreshLayers ==
  [effect |-> [l \in Layers |-> 0],       \* live effect instance, 0 for none
   animationRef |-> [l \in Layers |-> 0], \* 0 is null
   rafQueue |-> << >>,
   nextRafId |-> 1,
   nextGen |-> 1,
   resizeListeners |-> {},
   rainRef |-> << >>,
   peaksRef |-> << >>,
   blobsRef |-> << >>,
   bands |-> ZeroBands,                   \* energies of each layer's last draw
   canvasBars |-> [i \in 1..barsToRender |-> 0],  \* bar heights on the canvas
   rocketsRef |-> << >>,
   particlesRef |-> << >>,
   sparklesRef |-> << >>,
   painted |-> [rain |-> {}, rockets |-> {}, particles |-> {}, sparkles |-> {},
                bars |-> AlphaDen],       \* globalAlpha of the fills of the last draw
   history |-> TRUE,
   spectrumTicks |-> 0,                   \* Spectrum draws, modulo 2 without history
   drawLog |-> << >>,                     \* inputs of the Spectrum draws so far
   tornDownTicks |-> 0,                   \* draws run by a torn-down effect
   error |-> FALSE]                       \* an exception was raised

(* Mutant: the draw asks for two frames. *)
RequestFrameTwice(w, c) ==
  [w EXCEPT !.rafQueue = @ \o << [c EXCEPT !.id = w.nextRafId],
                                  [c EXCEPT !.id = w.nextRafId + 1] >>,
            !.animationRef[c.layer] = w.nextRafId + 1,
            !.nextRafId = @ + 2]

(* requestAnimationFrame(draw) and animationRef.current = its id *)
RequestFrame(w, c) ==
  [w EXCEPT !.rafQueue = Append(@, [c EXCEPT !.id = w.nextRafId]),
            !.animationRef[c.layer] = w.nextRafId,
            !.nextRafId = @ + 1]

TornDown(w, c) == IF w.effect[c.layer] # c.gen THEN 1 ELSE 0

(* Spectrum's draw, part_000:149-399 *)
DrawSpectrum(w, c, frame, random) ==
  LET bands == SpectrumBands(c.isPlaying, frame)
      barHeight == [i \in 1..barsToRender |->
                      BarHeight(BarValue(c.isPlaying, frame, i - 1), i - 1)]
      globalAlpha == ClampBrightness(c.brightness)
      fireworks == FireworksPass(w, c, random, globalAlpha)
      bokeh == BokehPass(w, c, random, bands.high, fireworks.globalAlpha)
      drawn == [w EXCEPT
        !.bands["Spectrum"] = bands,
        !.rainRef = RainTick(@, c.enableRain, bands.bass.num),
        !.rocketsRef = fireworks.rocketsRef,
        !.particlesRef = fireworks.particlesRef,
        !.sparklesRef = bokeh.sparklesRef,
        !.peaksRef = [i \in 1..barsToRender |-> UpdatePeak(@[i], barHeight[i])],
        !.canvasBars = barHeight,
        !.painted = [rain |-> IF c.enableRain THEN {globalAlpha} ELSE {},
                     rockets |-> fireworks.rockets,
                     particles |-> fireworks.particles,
                     sparkles |-> bokeh.sparkles,
                     bars |-> bokeh.globalAlpha],
        !.spectrumTicks = IF w.history THEN @ + 1 ELSE (@ + 1) % 2,
        !.drawLog = IF w.history
                      THEN Append(@, [isPlaying |-> c.isPlaying, frame |-> frame])
                      ELSE @,
        !.tornDownTicks = @ + TornDown(w, c)]
  IN RequestFrame(drawn, c)

(* Visualizer's draw, part_000:476-537 *)
DrawVisualizer(w, c, frame) ==
  LET bands == VisualizerBands(c.isPlaying, frame)
      drawn == [w EXCEPT
        !.bands["Visualizer"] = bands,
        !.blobsRef = BlobTick(@, c.isPlaying, bands.bass.num),
        !.tornDownTicks = @ + TornDown(w, c)]
  IN RequestFrame(drawn, c)

Draw(w, c, frame, random) ==
  IF c.layer = "Spectrum" THEN DrawSpectrum(w, c, frame, random)
  ELSE DrawVisualizer(w, c, frame)

(* The effect's guard: if (!canvasRef.current || !analyser) return *)
(* Mutant: the effect runs without an analyser. *)
EffectGuardMissing(ana) == TRUE

EffectGuard(ana) == ana # "null"

(* The body of the draw effect of a layer, part_000:90-401 and 457-539,    *)
(* under the props of this render.                                         *)
CreateEffect(w, layer, props) ==
  IF ~EffectGuard(props.analyser) THEN w
  ELSE
    LET gen == w.nextGen
        listening == [w EXCEPT !.resizeListeners = @ \cup {[layer |-> layer, gen |-> gen]},
                               !.nextGen = @ + 1]
        c == [id |-> 0, layer |-> layer, gen |-> gen,
              isPlaying |-> props.isPlaying, enableRain |-> props.enableRain,
              enableFireworks |-> props.enableFireworks,
              enableBokeh |-> props.enableBokeh,
              brightness |-> props.brightness]
    IN IF props.analyser = "null"
         THEN [listening EXCEPT !.error = TRUE]   \* analyser.frequencyBinCount of null
         ELSE LET live == [listening EXCEPT
                    !.effect[layer] = gen,
                    !.peaksRef = IF layer = "Spectrum" THEN InitPeaks(@) ELSE @]
              IN Draw(live, c, props.frame, props.random)

(* Mutant: the pending request is left in place. *)
CancelAnimationFrameNot(rafQueue, id) == rafQueue

CancelAnimationFrame(rafQueue, id) == SelectSeq(rafQueue, LAMBDA r : r.id # id)

(* The cleanup the effect returned, part_000:403-406 and 541-544 *)
Cleanup(w, layer) ==
  IF w.effect[layer] = 0 THEN w
  ELSE [w EXCEPT
          !.resizeListeners = @ \ {[layer |-> layer, gen |-> w.effect[layer]]},
          !.rafQueue = IF w.animationRef[layer] # 0
                         THEN CancelAnimationFrame(@, w.animationRef[layer])
                         ELSE @,
          !.effect[layer] = 0]

(* React commits a render: the cleanups of the effects whose dependencies  *)
(* changed run first, then their bodies, Visualizer before Spectrum.       *)
Rerun(w, rerun, props) ==
  LET c1 == IF "Visualizer" \in rerun THEN Cleanup(w, "Visualizer") ELSE w
      c2 == IF "Spectrum" \in rerun THEN Cleanup(c1, "Spectrum") ELSE c1
      e1 == IF "Visualizer" \in rerun THEN CreateEffect(c2, "Visualizer", props) ELSE c2
  IN IF "Spectrum" \in rerun THEN CreateEffect(e1, "Spectrum", props) ELSE e1

(* The layers whose dependency arrays differ between two renders *)
ChangedDeps(old, new) ==
  (IF old.analyser # new.analyser \/ old.isPlaying # new.isPlaying
     THEN {"Visualizer", "Spectrum"} ELSE {})
  \cup (IF old.enableRain # new.enableRain
           \/ old.enableFireworks # new.enableFireworks
           \/ old.enableBokeh # new.enableBokeh
           \/ old.brightness # new.brightness
          THEN {"Spectrum"} ELSE {})

Props(state, ana, rain, frame) ==
  [analyser |-> ana, isPlaying |-> (state = "PLAYING"), enableRain |-> rain,
   enableFireworks |-> showFireworks, enableBokeh |-> showBokeh,
   brightness |-> spectrumBrightness,
   frame |-> frame, random |-> NoRandom]

(* Request ids and effect instances are names: a run without history      *)
(* renames them after every step, the requests by their place in the       *)
(* callback list, the live effects by their layer; names no longer in use  *)
(* get one that stays apart from these.  The phases of the blobs, which    *)
(* only grow, are not kept.                                                *)
Renumber(w) ==
  LET n == Len(w.rafQueue)
      Gen(layer, gen) ==
        IF gen = 0 THEN 0
        ELSE IF gen = w.effect[layer] THEN (IF layer = "Visualizer" THEN 1 ELSE 2)
        ELSE 3
      Position(layer) ==
        {i \in 1..n : w.rafQueue[i].layer = layer /\ w.rafQueue[i].id = w.animationRef[layer]}
  IN [w EXCEPT
        !.rafQueue = [i \in 1..n |->
                        [w.rafQueue[i] EXCEPT
                           !.id = i, !.gen = Gen(w.rafQueue[i].layer, w.rafQueue[i].gen)]],
        !.animationRef = [l \in Layers |->
                            IF w.animationRef[l] = 0 THEN 0
                            ELSE IF Position(l) # {} THEN CHOOSE i \in Position(l) : TRUE
                            ELSE n + 1],
        !.nextRafId = n + 2,
        !.effect = [l \in Layers |-> Gen(l, w.effect[l])],
        !.resizeListeners = {[layer |-> x.layer, gen |-> Gen(x.layer, x.gen)] : x \in @},
        !.blobsRef = [i \in 1..Len(w.blobsRef) |-> [phase |-> 0]],
        !.nextGen = 4]

Forget(w) == IF w.history THEN w ELSE Renumber(w)

(* The first render: the pools are filled and the draw effects run. *)
MountLayers(seed, props) ==
  LET pools == [FreshLayers EXCEPT !.rainRef = InitRainPool(@, seed),
                                   !.blobsRef = InitBlobs(@)]
  IN Rerun(pools, Layers, props)

(* The frames the analyser can deliver while a draw reads it *)
FramesFor(isPlaying) == IF isPlaying THEN song ELSE {ZeroFrame}

(* The Spectrum draws the callbacks of a frame are about to make *)
SpectrumCallbacks(rafQueue) ==
  Cardinality({i \in 1..Len(rafQueue) : rafQueue[i].layer = "Spectrum"})

(* A render with new App state: commit it, within the draw budget. *)
Commit(old, new) ==
  LET rerun == ChangedDeps(old, new)
  IN /\ ("Spectrum" \in rerun /\ new.analyser # "null" /\ layers.history)
          => Len(layers.drawLog) < MaxDraws
     /\ layers' = Forget(Rerun(layers, rerun, new))

Render(state, ana, rain) ==
  \E frame \in FramesFor(state = "PLAYING" /\ ana # "null") :
    \E random \in RandomFor(layers, Props(state, ana, rain, frame), frame) :
      /\ Commit(Props(playbackState, analyser, showRain, frame),
                [Props(state, ana, rain, frame) EXCEPT !.random = random])
      /\ playbackState' = state
      /\ analyser' = ana
      /\ showRain' = rain
      /\ UNCHANGED effectSettings

(* A render in which only the Fireworks and Bokeh settings are new *)
RenderEffects(fireworks, bokeh) ==
  \E frame \in FramesFor(playbackState = "PLAYING" /\ analyser # "null") :
    LET old == Props(playbackState, analyser, showRain, frame)
        new == [old EXCEPT !.enableFireworks = fireworks, !.enableBokeh = bokeh]
    IN \E random \in RandomFor(layers, new, frame) :
         /\ Commit(old, [new EXCEPT !.random = random])
         /\ showFireworks' = fireworks
         /\ showBokeh' = bokeh
         /\ UNCHANGED <<playbackState, analyser, showRain, spectrumBrightness,
                        innerHeight, song>>

(* initAudioContext, App.tsx:196-213: the analyser is created once *)
InitAudioContext(ana) == IF ana = "null" THEN "AnalyserNode" ELSE ana

(* audio.play(): an element without a source stays empty (its promise     *)
(* never settles) and one whose source failed to load fails again; a       *)
(* paused one plays.  togglePlay attaches no handler to the promise, so    *)
(* its settling is not a step of the program.                              *)
Play(element) == IF element = "paused" THEN "playing" ELSE element

(* audio.pause(): a pending play() is rejected with an AbortError *)
Pause(element) == IF element \in {"loading", "playing"} THEN "paused" ELSE element

(* togglePlay, App.tsx:318-328 *)
TogglePlay ==
  /\ mounted
  /\ IF playbackState = "PLAYING"
       THEN /\ Render("PAUSED", analyser, showRain)
            /\ audio' = Pause(audio)
            /\ playPromise' = "none"
       ELSE /\ Render("PLAYING", InitAudioContext(analyser), showRain)
            /\ audio' = Play(audio)
            /\ UNCHANGED playPromise
  /\ UNCHANGED mounted
  /\ UNCHANGED lyricVars
  /\ UNCHANGED appVars

(* handleFileChange, App.tsx:242-280: the song is replaced, the lyrics are *)
(* cleared (LyricsView shows its placeholder) and PLAYING is set before    *)
(* play() settles.  The file's name is taken as already split into artist  *)
(* and title.                                                              *)
HandleFileChange ==
  /\ mounted
  /\ Render("PLAYING", analyser, showRain)
  /\ playPromise' = "pending"
  /\ audio' = "loading"
  /\ songMetadata' \in Songs
  /\ lyrics' = << >>
  /\ fixedLyrics' = normalizeLyrics(lyrics')
  /\ rows' = LyricsViewRows(rows, lyrics', fixedLyrics', EffectiveTime,
                            customColor, fontSizeScale, geminiLoading)
  /\ UNCHANGED <<mounted, tempLyrics, lrcPc, currentTime, lyricsOffset>>
  /\ UNCHANGED <<geminiLoading, generateLyricsCalls, customColor, fontSizeScale>>
  /\ UNCHANGED popoverVars

(* play().then, App.tsx:274-277 *)
PlayResolved ==
  /\ mounted
  /\ playPromise = "pending"
  /\ Render("PLAYING", InitAudioContext(analyser), showRain)
  /\ playPromise' = "none"
  /\ audio' = "playing"
  /\ UNCHANGED mounted
  /\ UNCHANGED lyricVars
  /\ UNCHANGED appVars

(* play().catch, App.tsx:277: the error is logged and no state is set.     *)
(* The element is left paused (playback was not allowed) or without a      *)
(* playable source.                                                        *)
PlayRejected ==
  /\ mounted
  /\ playPromise = "pending"
  /\ playPromise' = "none"
  /\ audio' \in {"paused", "failed"}
  /\ UNCHANGED <<mounted, playbackState, analyser, showRain, layers>>
  /\ UNCHANGED effectSettings
  /\ UNCHANGED lyricVars
  /\ UNCHANGED appVars

(* onEnded, App.tsx:611 *)
OnEnded ==
  /\ mounted
  /\ playbackState = "PLAYING"
  /\ audio = "playing"
  /\ Render("STOPPED", analyser, showRain)
  /\ audio' = "paused"
  /\ UNCHANGED <<mounted, playPromise>>
  /\ UNCHANGED lyricVars
  /\ UNCHANGED appVars

(* The Rain checkbox, App.tsx:575 *)
SetShowRain ==
  /\ mounted
  /\ Render(playbackState, analyser, ~showRain)
  /\ UNCHANGED <<mounted, playPromise, audio>>
  /\ UNCHANGED lyricVars
  /\ UNCHANGED appVars

(* The Fireworks and Bokeh checkboxes, App.tsx:579 and 583 *)
SetShowFireworks ==
  /\ mounted
  /\ RenderEffects(~showFireworks, showBokeh)
  /\ UNCHANGED <<mounted, playPromise, audio>>
  /\ UNCHANGED lyricVars
  /\ UNCHANGED appVars

SetShowBokeh ==
  /\ mounted
  /\ RenderEffects(showFireworks, ~showBokeh)
  /\ UNCHANGED <<mounted, playPromise, audio>>
  /\ UNCHANGED lyricVars
  /\ UNCHANGED appVars

(* The browser runs the callbacks requested since the last frame, in the   *)
(* order of their requests; each draw requests the next frame.             *)
RECURSIVE RunCallbacks(_, _, _, _)
RunCallbacks(w, callbacks, frame, random) ==
  IF callbacks = << >> THEN w
  ELSE RunCallbacks(Draw(w, Head(callbacks), frame, random), Tail(callbacks),
                    frame, random)

(* The outcomes of Math.random in the Spectrum draws of the callbacks *)
RandomOf(w, callbacks, frame) ==
  {NoRandom} \cup UNION {RandomFor(w, callbacks[i], frame) :
                           i \in {j \in 1..Len(callbacks) :
                                    callbacks[j].layer = "Spectrum"}}

AnimationFrame ==
  /\ layers.rafQueue # << >>
  /\ layers.history =>
       Len(layers.drawLog) + SpectrumCallbacks(layers.rafQueue) <= MaxDraws
  /\ \E frame \in FramesFor(\E i \in 1..Len(layers.rafQueue) : layers.rafQueue[i].isPlaying) :
       \E random \in RandomOf(layers, layers.rafQueue, frame) :
         layers' = Forget(RunCallbacks([layers EXCEPT !.rafQueue = << >>],
                                       layers.rafQueue, frame, random))
  /\ UNCHANGED <<mounted, playbackState, playPromise, audio, analyser, showRain>>
  /\ UNCHANGED effectSettings
  /\ UNCHANGED lyricVars
  /\ UNCHANGED appVars

(* The App is torn down: every live effect is cleaned up. *)
Unmount ==
  /\ mounted
  /\ mounted' = FALSE
  /\ layers' = Forget(Cleanup(Cleanup(layers, "Visualizer"), "Spectrum"))
  /\ UNCHANGED <<playbackState, playPromise, audio, analyser, showRain>>
  /\ UNCHANGED effectSettings
  /\ UNCHANGED lyricVars
  /\ UNCHANGED appVars

(* App.tsx:173-178: brightness 1.0, rain and fireworks off, bokeh on *)
LayersAtRest(seeds) ==
  /\ mounted = TRUE
  /\ playbackState = "STOPPED"
  /\ playPromise = "none"
  /\ audio = "empty"
  /\ analyser = "null"
  /\ showRain = FALSE
  /\ showFireworks = FALSE
  /\ showBokeh = TRUE
  /\ spectrumBrightness = 10
  /\ innerHeight = ViewHeight
  /\ song = FrameSet
  /\ \E seed \in seeds :
       layers = MountLayers(seed, Props("STOPPED", "null", FALSE, ZeroFrame))

LyricsAtRest ==
  /\ tempLyrics = << >>
  /\ lyrics = << >>
  /\ fixedLyrics = << >>
  /\ lrcPc = "rendered"
  /\ currentTime = 0
  /\ lyricsOffset = 0
  /\ rows = << >>

(* App.tsx:155-183: white lyrics at scale 1, every popover closed *)
AppWith(loaded) ==
  /\ songMetadata = loaded
  /\ geminiLoading = FALSE
  /\ generateLyricsCalls = {}
  /\ customColor = "#ffffff"
  /\ fontSizeScale = 10
  /\ showColorPicker = FALSE
  /\ showBgColorPicker = FALSE
  /\ showSettings = FALSE

(* App.tsx:155: no song is loaded *)
AppAtRest == AppWith(<< >>)

InitLayers == LayersAtRest(RainSeeds) /\ LyricsAtRest /\ AppAtRest

NextLayers ==
  \/ TogglePlay
  \/ HandleFileChange
  \/ PlayResolved
  \/ PlayRejected
  \/ OnEnded
  \/ SetShowRain
  \/ AnimationFrame
  \/ Unmount

SpecLayers == InitLayers /\ [][NextLayers]_vars

(* The effects over long runs: a tall window, a faint frame while the      *)
(* song plays, no rain.                                                    *)
InitEffects ==
  /\ mounted = TRUE
  /\ playbackState = "STOPPED"
  /\ playPromise = "none"
  /\ audio = "empty"
  /\ analyser = "null"
  /\ showRain = FALSE
  /\ showFireworks = FALSE
  /\ showBokeh = TRUE
  /\ spectrumBrightness = 10
  /\ innerHeight = TallHeight
  /\ song = {FaintFrame}
  /\ layers = [MountLayers(0, Props("STOPPED", "null", FALSE, ZeroFrame))
                 EXCEPT !.history = FALSE]
  /\ LyricsAtRest
  /\ AppAtRest

NextEffects ==
  \/ TogglePlay
  \/ SetShowFireworks
  \/ SetShowBokeh
  \/ AnimationFrame
  \/ Unmount

SpecEffects == InitEffects /\ [][NextEffects]_vars

(* The canvas over short runs: any brightness of the slider, any choice of *)
(* effects, a loud song.                                                   *)
LoudFrame == [lo |-> 255, mid |-> 255, hi |-> 255]
Brightnesses == {1, 10, 15}

InitCanvas ==
  /\ mounted = TRUE
  /\ playbackState = "STOPPED"
  /\ playPromise = "none"
  /\ audio = "empty"
  /\ analyser = "null"
  /\ showRain \in BOOLEAN
  /\ showFireworks \in BOOLEAN
  /\ showBokeh \in BOOLEAN
  /\ spectrumBrightness \in Brightnesses
  /\ innerHeight = ViewHeight
  /\ song = {LoudFrame}
  /\ layers = MountLayers(0, Props("STOPPED", "null", showRain, ZeroFrame))
  /\ LyricsAtRest
  /\ AppAtRest

NextCanvas ==
  \/ TogglePlay
  \/ AnimationFrame

SpecCanvas == InitCanvas /\ [][NextCanvas]_vars

----------------------------------------------------------------------------
(* The lyric pipeline: an .lrc text is read, parsed by parseLrc into the   *)
(* App state, and normalized by LyricsView when it renders.                *)

ReadLrc(inputs) ==
  /\ tempLyrics \in inputs
  /\ lyrics = << >>
  /\ fixedLyrics = << >>
  /\ lrcPc = "read"
  /\ currentTime = 0
  /\ lyricsOffset = 0
  /\ rows = << >>
  /\ LayersAtRest({0})
  /\ AppAtRest

(* handleLrcFileChange's reader.onload: setLyrics(parseLrc(text)) *)
SetLyrics ==
  /\ lrcPc = "read"
  /\ lyrics' = parseLrc(tempLyrics)
  /\ lrcPc' = "parsed"
  /\ UNCHANGED <<tempLyrics, fixedLyrics, currentTime, lyricsOffset, rows>>
  /\ UNCHANGED layerVars
  /\ UNCHANGED appVars

(* LyricsView renders: fixedLyrics = useMemo(() => normalizeLyrics(lyrics)) *)
RenderLyrics ==
  /\ lrcPc = "parsed"
  /\ fixedLyrics' = normalizeLyrics(lyrics)
  /\ lrcPc' = "rendered"
  /\ rows' = LyricsViewRows(rows, lyrics, fixedLyrics', EffectiveTime,
                            customColor, fontSizeScale, geminiLoading)
  /\ UNCHANGED <<tempLyrics, lyrics, currentTime, lyricsOffset>>
  /\ UNCHANGED layerVars
  /\ UNCHANGED appVars

InitLrc == ReadLrc(LrcInputs(LineTimes, Texts \cup {Dots}, MaxLines))

NextLrc == SetLyrics \/ RenderLyrics

SpecLrc == InitLrc /\ [][NextLrc]_vars

----------------------------------------------------------------------------
(* Properties of the lyric pipeline, checked under SpecLrc *)

Parsed == lrcPc \in {"parsed", "rendered"}
Rendered == lrcPc = "rendered"

RawGap(i) == tempLyrics[i + 1].time - tempLyrics[i].time
LongGap(i) == i < Len(tempLyrics) /\ RawGap(i) > GapThreshold
LongGapsBefore(i) == Cardinality({j \in 1..(i - 1) : LongGap(j)})
(* Where input line i is found in the output of parseLrc. *)
Pos(i) == i + LongGapsBefore(i)

(* C1 as stated: after parseLrc and normalizeLyrics every line has a       *)
(* duration > 0 and every line but the last ends where the next starts.    *)
C1_Gapless_AnyList ==
  Rendered =>
    /\ \A i \in 1..Len(fixedLyrics) : fixedLyrics[i].duration > 0
    /\ \A i \in 1..(Len(fixedLyrics) - 1) :
         fixedLyrics[i].time + fixedLyrics[i].duration = fixedLyrics[i + 1].time

(* C1 amended: after parseLrc and normalizeLyrics every line has a         *)
(* duration > 0, and every line but the last whose successor starts more   *)
(* than 0.1 s after it ends exactly where the successor starts.            *)
C1_Gapless ==
  Rendered =>
    /\ \A i \in 1..Len(fixedLyrics) : fixedLyrics[i].duration > 0
    /\ \A i \in 1..(Len(fixedLyrics) - 1) :
         fixedLyrics[i + 1].time - fixedLyrics[i].time > MinGap =>
           fixedLyrics[i].time + fixedLyrics[i].duration = fixedLyrics[i + 1].time

(* Three lines 0.2 s apart and a long gap: gapless, with a dots line. *)
C1_Witness ==
  /\ Rendered
  /\ Len(tempLyrics) = 3
  /\ Len(fixedLyrics) = 4
  /\ \A i \in 1..3 : fixedLyrics[i + 1].time - fixedLyrics[i].time > MinGap
  /\ \E i \in 1..3 : fixedLyrics[i].duration = 2

(* C2: parseLrc inserts a dots line of 2.0 s after a line exactly when the *)
(* raw gap to the next line exceeds 10.0 s, and then cuts the line to      *)
(* gap - 2.0; every input line keeps its time and text, in order; lines at *)
(* t=0 and t=15 give (0, 13), dots (13, 2), (15).                          *)
C2_GapInsertion ==
  Parsed =>
    /\ Len(lyrics) = Len(tempLyrics) + LongGapsBefore(Len(tempLyrics) + 1)
    /\ \A i \in 1..Len(tempLyrics) :
         /\ lyrics[Pos(i)].time = tempLyrics[i].time
         /\ lyrics[Pos(i)].text = tempLyrics[i].text
         /\ LongGap(i) =>
              /\ lyrics[Pos(i)].duration = RawGap(i) - DotsDuration
              /\ lyrics[Pos(i) + 1] =
                   [time |-> tempLyrics[i].time + RawGap(i) - DotsDuration,
                    text |-> Dots, duration |-> DotsDuration]
         /\ (i < Len(tempLyrics) /\ ~LongGap(i)) =>
              lyrics[Pos(i)].duration = RawGap(i)
    /\ (Len(tempLyrics) = 2 /\ tempLyrics[1].time = 0 /\ tempLyrics[2].time = 150) =>
         /\ Len(lyrics) = 3
         /\ lyrics[1] = [time |-> 0, text |-> tempLyrics[1].text, duration |-> 130]
         /\ lyrics[2] = [time |-> 130, text |-> Dots, duration |-> 20]
         /\ lyrics[3].time = 150 /\ lyrics[3].text = tempLyrics[2].text

C2_Witness ==
  /\ Parsed
  /\ Len(tempLyrics) = 2
  /\ tempLyrics[1].time = 0
  /\ tempLyrics[2].time = 150
  /\ Len(lyrics) = 3

(* C3: the last line of a non-empty list has duration 5.0 after parseLrc   *)
(* and after normalizeLyrics; the single line (10 s, "hi") comes out as    *)
(* one line of duration 5.0, with no dots line.                            *)
C3_LastLineDefault ==
  /\ (Parsed /\ Len(tempLyrics) > 0) =>
       /\ Len(lyrics) > 0
       /\ lyrics[Len(lyrics)].time = tempLyrics[Len(tempLyrics)].time
       /\ lyrics[Len(lyrics)].duration = 50
  /\ (Rendered /\ Len(tempLyrics) > 0) =>
       /\ Len(fixedLyrics) = Len(lyrics)
       /\ fixedLyrics[Len(fixedLyrics)].duration = 50
  /\ (Parsed /\ tempLyrics = <<[time |-> 100, text |-> "hi"]>>) =>
       lyrics = <<[time |-> 100, text |-> "hi", duration |-> 50]>>
  /\ (Rendered /\ tempLyrics = <<[time |-> 100, text |-> "hi"]>>) =>
       fixedLyrics = <<[time |-> 100, text |-> "hi", duration |-> 50]>>

C3_Witness ==
  /\ Rendered
  /\ tempLyrics = <<[time |-> 100, text |-> "hi"]>>
  /\ Len(fixedLyrics) = 1

(* The gap normalizeLyrics computes for line i of its input *)
ComputedGap(i) == lyrics[i + 1].time - lyrics[i].time

(* C11: every non-last line whose computed gap to the next start is        *)
(* degenerate (at most 0.1 s, zero and negative gaps included) leaves      *)
(* normalizeLyrics with duration 2.0, every other non-last line with       *)
(* exactly the gap, and no line with a duration <= 0; times and texts are  *)
(* untouched.                                                              *)
C11_DegenerateClamp ==
  Rendered =>
    /\ Len(fixedLyrics) = Len(lyrics)
    /\ \A i \in 1..(Len(lyrics) - 1) :
         /\ ComputedGap(i) <= 1 => fixedLyrics[i].duration = 20
         /\ ComputedGap(i) > 1 => fixedLyrics[i].duration = ComputedGap(i)
    /\ \A i \in 1..Len(lyrics) :
         /\ fixedLyrics[i].duration > 0
         /\ fixedLyrics[i].time = lyrics[i].time
         /\ fixedLyrics[i].text = lyrics[i].text

(* An out-of-order line followed by a line 0.2 s before its successor:     *)
(* the negative gap is clamped, the 0.2 s gap is kept.                     *)
C11_Witness ==
  /\ Rendered
  /\ Len(lyrics) = 3
  /\ ComputedGap(1) < 0
  /\ lyrics[1].duration < 0
  /\ fixedLyrics[1].duration = 20
  /\ ComputedGap(2) = 2
  /\ fixedLyrics[2].duration = 2

----------------------------------------------------------------------------
(* parseLrc and normalizeLyrics in IEEE 754 double precision.              *)
(*                                                                         *)
(* A lyric time of at least 1 s is a double that is a whole number of      *)
(* 2^-52 s, and so is every sum and difference of such times.  A double is *)
(* kept as its sign and its magnitude in that unit, the magnitude in two   *)
(* limbs of 30 bits: (hi * 2^30 + lo) * 2^-52.  Magnitudes stay below 256. *)

MaxStampLines == 3     \* lines of an .lrc file, double-precision checks
MaxListLines == 2      \* lines of a list handed to normalizeLyrics directly

Limb == 1073741824     \* 2^30
MantissaBits == 53

F64(neg, hi, lo) == [neg |-> neg, hi |-> hi, lo |-> lo]

RECURSIVE BitLen(_)
BitLen(n) == IF n = 0 THEN 0 ELSE 1 + BitLen(n \div 2)

(* The exact magnitude hi * 2^30 + lo rounded to 53 significant bits, ties *)
(* to even: what every + and - of two doubles does to its exact result.    *)
RoundNearestEven(hi, lo) ==
  LET s == BitLen(hi) + 30 - MantissaBits
  IN IF s <= 0 THEN F64(FALSE, hi, lo)
     ELSE LET unit == 2 ^ s
              rem == lo % unit
              odd == (lo \div unit) % 2 = 1
              up == rem * 2 > unit \/ (rem * 2 = unit /\ odd)
              rounded == lo - rem + (IF up THEN unit ELSE 0)
          IN IF rounded >= Limb THEN F64(FALSE, hi + 1, rounded - Limb)
             ELSE F64(FALSE, hi, rounded)

MagLess(a, b) == a.hi < b.hi \/ (a.hi = b.hi /\ a.lo < b.lo)

(* |a| - |b| for |a| >= |b|, exact *)
MagMinus(a, b) ==
  IF a.lo >= b.lo THEN RoundNearestEven(a.hi - b.hi, a.lo - b.lo)
  ELSE RoundNearestEven(a.hi - b.hi - 1, a.lo + Limb - b.lo)

(* a + b and a - b of two non-negative doubles *)
F64Add(a, b) ==
  IF a.lo + b.lo >= Limb THEN RoundNearestEven(a.hi + b.hi + 1, a.lo + b.lo - Limb)
  ELSE RoundNearestEven(a.hi + b.hi, a.lo + b.lo)

F64Sub(a, b) ==
  IF MagLess(a, b) THEN [MagMinus(b, a) EXCEPT !.neg = TRUE] ELSE MagMinus(a, b)

(* a > b and a <= b for a non-negative b *)
F64Greater(a, b) == ~a.neg /\ MagLess(b, a)
F64AtMost(a, b) == ~F64Greater(a, b)

F64Falsy(a) == a.hi = 0 /\ a.lo = 0

(* a < b for doubles of either sign *)
F64Less(a, b) ==
  IF a.neg # b.neg THEN a.neg
  ELSE IF a.neg THEN MagLess(b, a)
  ELSE MagLess(a, b)

(* a + b for a non-negative a and a b of either sign *)
F64Plus(a, b) == IF b.neg THEN F64Sub(a, [b EXCEPT !.neg = FALSE]) ELSE F64Add(a, b)

Zero64 == F64(FALSE, 0, 0)
Three64 == F64(FALSE, 12582912, 0)     \* 3.0
Two64 == F64(FALSE, 8388608, 0)        \* 2.0
Five64 == F64(FALSE, 20971520, 0)      \* 5.0
Ten64 == F64(FALSE, 41943040, 0)       \* 10.0
(* The double 0.1 lies between two whole numbers of 2^-52: a duration is   *)
(* <= 0.1 exactly when it is at most the lower one.                        *)
Tenth64 == F64(FALSE, 419430, 429496729)

(* Timestamps [mm:ss.xx] and the double parseLrc computes for each,        *)
(* minutes * 60 + seconds + parseFloat("0.xx"), App.tsx:18-21.             *)
Stamps ==
  {"00:03.13", "00:04.09", "00:04.19", "00:12.83", "00:14.09", "00:37.39", "01:20.79",
   "03:30.42"}

ParseTime(stamp) ==
  CASE stamp = "00:03.13" -> F64(FALSE, 13128171, 558345748)   \* 3.13
    [] stamp = "00:04.09" -> F64(FALSE, 17154703, 386547056)   \* 4.09
    [] stamp = "00:04.19" -> F64(FALSE, 17574133, 816043788)   \* 4.19
    [] stamp = "00:12.83" -> F64(FALSE, 53812920, 343597384)   \* 12.83
    [] stamp = "00:14.09" -> F64(FALSE, 59097743, 386547056)   \* 14.09
    [] stamp = "00:37.39" -> F64(FALSE, 156825026, 601295424)  \* 37.39
    [] stamp = "01:20.79" -> F64(FALSE, 338857820, 171798720)  \* 80.79
    [] stamp = "03:30.42" -> F64(FALSE, 882565447, 730144384)  \* 210.42

(* parseLrc, App.tsx:29-60, on doubles *)
TimeDiff64(temp, i) ==
  IF i < Len(temp) THEN F64Sub(temp[i + 1].time, temp[i].time) ELSE Five64

(* Mutant: the line before the dots keeps the whole gap. *)
PushLine64Uncut(temp, i) ==
  LET line == temp[i]
      timeDiff == TimeDiff64(temp, i)
  IN IF F64Greater(timeDiff, Ten64)
       THEN << [time |-> line.time, text |-> line.text, duration |-> timeDiff],
               [time |-> F64Add(line.time, F64Sub(timeDiff, Two64)), text |-> Dots,
                duration |-> Two64] >>
       ELSE << [time |-> line.time, text |-> line.text, duration |-> timeDiff] >>

PushLine64(temp, i) ==
  LET line == temp[i]
      timeDiff == TimeDiff64(temp, i)
  IN IF F64Greater(timeDiff, Ten64)
       THEN << [time |-> line.time, text |-> line.text,
                duration |-> F64Sub(timeDiff, Two64)],
               [time |-> F64Add(line.time, F64Sub(timeDiff, Two64)), text |-> Dots,
                duration |-> Two64] >>
       ELSE << [time |-> line.time, text |-> line.text, duration |-> timeDiff] >>

RECURSIVE ParseLoop64(_, _)
ParseLoop64(temp, i) ==
  IF i > Len(temp) THEN << >>
  ELSE PushLine64(temp, i) \o ParseLoop64(temp, i + 1)

parseLrc64(temp) == ParseLoop64(temp, 1)

(* normalizeLyrics, part_000:569-582, on doubles.  Its `line.duration ||`  *)
(* allows for a line that comes without a duration: the field is then      *)
(* absent and line.duration is undefined, which is falsy.                  *)
DurationFalsy(line) == "duration" \notin DOMAIN line \/ F64Falsy(line.duration)

NormalizeLine64(ls, i) ==
  IF i = Len(ls)
    THEN [time |-> ls[i].time, text |-> ls[i].text,
          duration |-> IF DurationFalsy(ls[i]) THEN Five64 ELSE ls[i].duration]
    ELSE LET duration == F64Sub(ls[i + 1].time, ls[i].time)
         IN [time |-> ls[i].time, text |-> ls[i].text,
             duration |-> IF F64Falsy(duration) \/ F64AtMost(duration, Tenth64)
                            THEN Two64 ELSE duration]

normalizeLyrics64(ls) == [i \in 1..Len(ls) |-> NormalizeLine64(ls, i)]

(* Every sequence of at most n elements of S *)
SeqsUpTo(S, n) == UNION { [1..k -> S] : k \in 0..n }

(* The line lists normalizeLyrics is applied to: lines in any order, with  *)
(* a positive, zero or negative duration or with none.                     *)
ListTimes == {ParseTime("00:04.09"), ParseTime("00:04.19"), ParseTime("00:37.39")}
ListDurations == {F64(FALSE, 0, 0), Two64, F64(TRUE, 8388608, 0)}

LineLists ==
  SeqsUpTo([time : ListTimes, text : {"a"}, duration : ListDurations]
             \cup [time : ListTimes, text : {"a"}],
           MaxListLines)

(* LyricsView's activeIndex, part_000:732-734, on doubles *)
End64(l) == F64Plus(l.time, IF DurationFalsy(l) THEN Three64 ELSE l.duration)

(* currentTime >= l.time && currentTime < l.time + (l.duration || 3) *)
IntervalContains64(ls, i, T) == ~F64Less(T, ls[i].time) /\ F64Less(T, End64(ls[i]))

RECURSIVE FindIndexFrom64(_, _, _)
FindIndexFrom64(ls, T, i) ==
  IF i > Len(ls) THEN -1
  ELSE IF IntervalContains64(ls, i, T) THEN i - 1
  ELSE FindIndexFrom64(ls, T, i + 1)

ActiveIndex64(ls, T) == FindIndexFrom64(ls, T, 1)

(* LyricsView's rows, part_000:749-799, with the times in doubles; the     *)
(* lyric offset stays 0, and time + 0 is the time.                         *)
LyricsViewRows64(old, raw, ls, T, fillColor, scale, isLoading) ==
  IF isLoading \/ Len(raw) = 0 THEN << >>
  ELSE MemoRows(old, RowProps(ls, ActiveIndex64(ls, T), T, fillColor, scale))

(* An .lrc text is read and parsed, or a list is handed over as it is. *)
InitNorm ==
  /\ \/ /\ tempLyrics \in SeqsUpTo([time : {ParseTime(st) : st \in Stamps}, text : {"a"}],
                                   MaxStampLines)
        /\ tempLyrics # << >>
        /\ lyrics = << >>
        /\ lrcPc = "read"
     \/ /\ tempLyrics = << >>
        /\ lyrics \in LineLists
        /\ lrcPc = "parsed"
  /\ fixedLyrics = << >>
  /\ currentTime = Zero64
  /\ lyricsOffset = 0
  /\ rows = << >>
  /\ LayersAtRest({0})
  /\ AppAtRest

SetLyrics64 ==
  /\ lrcPc = "read"
  /\ lyrics' = parseLrc64(tempLyrics)
  /\ lrcPc' = "parsed"
  /\ UNCHANGED <<tempLyrics, fixedLyrics, currentTime, lyricsOffset, rows>>
  /\ UNCHANGED layerVars
  /\ UNCHANGED appVars

RenderLyrics64 ==
  /\ lrcPc = "parsed"
  /\ fixedLyrics' = normalizeLyrics64(lyrics)
  /\ lrcPc' = "rendered"
  /\ rows' = LyricsViewRows64(rows, lyrics, fixedLyrics', currentTime,
                              customColor, fontSizeScale, geminiLoading)
  /\ UNCHANGED <<tempLyrics, lyrics, currentTime, lyricsOffset>>
  /\ UNCHANGED layerVars
  /\ UNCHANGED appVars

(* The audio position is any double; the ones taken are the start and the  *)
(* end of each line's interval.                                            *)
Instants64(ls) ==
  {ls[i].time : i \in 1..Len(ls)}
    \cup {End64(ls[i]) : i \in {j \in 1..Len(ls) : ~End64(ls[j]).neg}}

(* animate, App.tsx:216-227: setCurrentTime(audio.currentTime); the lyric  *)
(* offset stays 0, and time + 0 is the time.                               *)
Animate64 ==
  /\ lrcPc = "rendered"
  /\ currentTime' \in Instants64(fixedLyrics)
  /\ rows' = LyricsViewRows64(rows, lyrics, fixedLyrics, currentTime',
                              customColor, fontSizeScale, geminiLoading)
  /\ UNCHANGED <<tempLyrics, lyrics, fixedLyrics, lrcPc, lyricsOffset>>
  /\ UNCHANGED layerVars
  /\ UNCHANGED appVars

NextNorm == SetLyrics64 \/ RenderLyrics64 \/ Animate64

SpecNorm == InitNorm /\ [][NextNorm]_vars

----------------------------------------------------------------------------
(* Properties of normalizeLyrics, checked under SpecNorm *)

(* The list came out of parseLrc, and its timestamps increase by more than *)
(* 0.1 s from each line to the next.                                       *)
ParsedIncreasing ==
  /\ tempLyrics # << >>
  /\ \A i \in 1..(Len(tempLyrics) - 1) :
       F64Greater(F64Sub(tempLyrics[i + 1].time, tempLyrics[i].time), Tenth64)

Idempotent == normalizeLyrics64(fixedLyrics) = fixedLyrics

(* |a - b| as a number of 2^-52 s, for two non-negative doubles *)
Apart(a, b) == [F64Sub(a, b) EXCEPT !.neg = FALSE]

RoundingSlack == F64(FALSE, 0, 128)    \* 2^-45 s: one unit in the last place below 256

(* C12 as stated: normalizeLyrics is idempotent on every list, and leaves  *)
(* every time and duration of parseLrc's output unchanged when the         *)
(* timestamps increase by more than 0.1 s.                                 *)
C12_Idempotent_Exact ==
  Rendered =>
    /\ Idempotent
    /\ ParsedIncreasing => fixedLyrics = lyrics

(* C12 amended: normalizeLyrics is idempotent on every list; on parseLrc's *)
(* output for timestamps increasing by more than 0.1 s it leaves every     *)
(* time and text unchanged, every duration unchanged when no gap exceeds   *)
(* 10 s (no transition line), and every duration within floating-point     *)
(* rounding (2^-45 s for times below 256 s) otherwise.                     *)
C12_Idempotent ==
  Rendered =>
    /\ Idempotent
    /\ ParsedIncreasing =>
         /\ Len(fixedLyrics) = Len(lyrics)
         /\ \A i \in 1..Len(lyrics) :
              /\ fixedLyrics[i].time = lyrics[i].time
              /\ fixedLyrics[i].text = lyrics[i].text
              /\ F64AtMost(Apart(fixedLyrics[i].duration, lyrics[i].duration),
                           RoundingSlack)
         /\ Len(lyrics) = Len(tempLyrics) => fixedLyrics = lyrics

(* [01:20.79] and [03:30.42]: parseLrc cuts the first line to 127.63 s and *)
(* puts the dots 2 s before the second; normalizeLyrics re-derives both    *)
(* durations one rounding away, and a second pass changes nothing more.    *)
C12_Witness ==
  /\ Rendered
  /\ ParsedIncreasing
  /\ Len(tempLyrics) = 2
  /\ Len(lyrics) = 3
  /\ fixedLyrics[1].duration # lyrics[1].duration
  /\ fixedLyrics[2].duration # Two64
  /\ Idempotent

----------------------------------------------------------------------------

(* LyricLineRow, part_000:610-611: blur in tenths of a px, scale in        *)
(* hundredths.                                                             *)
(* Mutant: the blur grows without a cap. *)
Blur10Uncapped(isActive, distance) == IF isActive THEN 0 ELSE distance * 15

Blur10(isActive, distance) == IF isActive THEN 0 ELSE Min(80, distance * 15)

Scale100(isActive, distance) == IF isActive THEN 105 ELSE Max(85, 100 - distance * 5)

(* LyricLineRow, active branch, part_000:613-643.  Times are 0.1 s, so     *)
(* 0.5 s is 5; fillDuration is kept times 100 to hold duration * 0.85, and *)
(* progress and the per-character percent are fractions over the same      *)
(* denominator FillDuration100.                                            *)
Elapsed(line, T) == Max(0, T - line.time)

(* Mutant: the fill takes the whole duration. *)
FillDuration100Whole(line) == Max(500, OrDefault(line.duration) * 100)

FillDuration100(line) == Max(500, OrDefault(line.duration) * 85)

ProgressDen(line) == FillDuration100(line)
ProgressNum(line, T) == Min(ProgressDen(line), Elapsed(line, T) * 100)

TotalChars(line) == Len(line.text)

(* Mutant: the per-character percent is not clamped. *)
PercentNumUnclamped(line, T, idx) ==
  ProgressNum(line, T) * TotalChars(line) - idx * ProgressDen(line)

(* Mutant: every character is filled to the line's progress. *)
PercentNumUniform(line, T, idx) == ProgressNum(line, T)

(* percent = max(0, min(1, progress * totalChars - idx)), as a numerator   *)
(* over ProgressDen(line).                                                 *)
PercentNum(line, T, idx) ==
  Max(0, Min(ProgressDen(line),
             ProgressNum(line, T) * TotalChars(line) - idx * ProgressDen(line)))

(* Playback: the polling loop publishes the audio position, the user seeks *)
(* and nudges the lyric offset.                                            *)

(* animate, App.tsx:216-227: setCurrentTime(audio.currentTime) *)
Animate ==
  /\ lrcPc = "rendered"
  /\ currentTime < MaxTime
  /\ currentTime' = currentTime + 1
  /\ rows' = LyricsViewRows(rows, lyrics, fixedLyrics, currentTime' + lyricsOffset,
                            customColor, fontSizeScale, geminiLoading)
  /\ UNCHANGED <<tempLyrics, lyrics, fixedLyrics, lrcPc, lyricsOffset>>
  /\ UNCHANGED layerVars
  /\ UNCHANGED appVars

(* handleSeek, App.tsx:338-344 *)
HandleSeek ==
  /\ lrcPc = "rendered"
  /\ \E time \in 0..(MaxTime \div SeekStep) : currentTime' = time * SeekStep
  /\ rows' = LyricsViewRows(rows, lyrics, fixedLyrics, currentTime' + lyricsOffset,
                            customColor, fontSizeScale, geminiLoading)
  /\ UNCHANGED <<tempLyrics, lyrics, fixedLyrics, lrcPc, lyricsOffset>>
  /\ UNCHANGED layerVars
  /\ UNCHANGED appVars

(* adjustOffset, App.tsx:346-348, from the -0.5s and +0.5s buttons *)
AdjustOffset ==
  /\ lrcPc = "rendered"
  /\ \E amount \in {-OffsetStep, OffsetStep} :
       /\ Abs(lyricsOffset + amount) <= MaxOffsetSteps * OffsetStep
       /\ lyricsOffset' = lyricsOffset + amount
  /\ rows' = LyricsViewRows(rows, lyrics, fixedLyrics, currentTime + lyricsOffset',
                            customColor, fontSizeScale, geminiLoading)
  /\ UNCHANGED <<tempLyrics, lyrics, fixedLyrics, lrcPc, currentTime>>
  /\ UNCHANGED layerVars
  /\ UNCHANGED appVars

(* A song of eight lines one second apart, for the rows far from the       *)
(* active one.                                                             *)
LongLrc == [i \in 1..8 |-> [time |-> 10 * i, text |-> "a"]]

(* A song of one line of five characters, for the wipe across a line. *)
WipeLrc == << [time |-> 0, text |-> "hello"] >>

InitSync == ReadLrc(LrcInputs(SyncTimes, Texts, MaxSyncLines) \cup {LongLrc, WipeLrc})

NextSync == SetLyrics \/ RenderLyrics \/ Animate \/ HandleSeek \/ AdjustOffset

SpecSync == InitSync /\ [][NextSync]_vars

----------------------------------------------------------------------------
(* Properties of the lyric display, checked under SpecSync *)

(* The lines (1-based) whose half-open interval holds the effective time. *)
Hits ==
  {i \in 1..Len(fixedLyrics) :
     /\ fixedLyrics[i].time <= EffectiveTime
     /\ EffectiveTime < fixedLyrics[i].time + fixedLyrics[i].duration}

(* C4: the active index is the smallest i whose interval [time, time +     *)
(* duration) holds T = playback time + offset, and -1 exactly when no      *)
(* interval holds T: before every start, at or after every end, and the    *)
(* end instant itself belongs to no line's own interval; lines (0, 5 s),   *)
(* (5 s, 5 s) at T = 6.0 give active index 1 and distance 1 for line 0.    *)
C4_ActiveLine ==
  Rendered =>
    /\ (Hits = {}) <=> (activeIndex = -1)
    /\ Hits # {} =>
         /\ activeIndex + 1 \in Hits
         /\ \A j \in Hits : activeIndex + 1 <= j
    /\ (\A i \in 1..Len(fixedLyrics) : EffectiveTime < fixedLyrics[i].time) =>
         activeIndex = -1
    /\ (\A i \in 1..Len(fixedLyrics) :
          EffectiveTime >= fixedLyrics[i].time + fixedLyrics[i].duration) =>
         activeIndex = -1
    /\ \A i \in 1..Len(fixedLyrics) :
         EffectiveTime = fixedLyrics[i].time + fixedLyrics[i].duration =>
           activeIndex # i - 1
    /\ ( /\ Len(fixedLyrics) = 2
         /\ fixedLyrics[1].time = 0 /\ fixedLyrics[1].duration = 50
         /\ fixedLyrics[2].time = 50 /\ fixedLyrics[2].duration = 50
         /\ EffectiveTime = 60 ) =>
         (activeIndex = 1 /\ Distance(0) = 1)

(* The example of the claim, reached with a non-zero offset. *)
C4_Witness ==
  /\ Rendered
  /\ Len(fixedLyrics) = 2
  /\ fixedLyrics[1].time = 0 /\ fixedLyrics[1].duration = 50
  /\ fixedLyrics[2].time = 50 /\ fixedLyrics[2].duration = 50
  /\ EffectiveTime = 60
  /\ lyricsOffset # 0
  /\ activeIndex = 1

ActiveLine == fixedLyrics[activeIndex + 1]

(* C5: for the active line, every character's fill percent is 1 once       *)
(* elapsed >= fillDuration = max(0.5, duration * 0.85), is 0 at elapsed =  *)
(* 0, and lies in [0, 1] always.                                           *)
C5_FillClamp ==
  (Rendered /\ activeIndex # -1) =>
    LET line == ActiveLine
        elapsed == Elapsed(line, RowTime(activeIndex))
        den == ProgressDen(line)
    IN \A idx \in 0..(TotalChars(line) - 1) :
         LET num == PercentNum(line, RowTime(activeIndex), idx)
         IN /\ 0 <= num /\ num <= den
            /\ elapsed * 100 >= Max(500, line.duration * 85) => num = den
            /\ elapsed = 0 => num = 0

(* A two-character active line past its fill duration but not yet over. *)
C5_Witness ==
  /\ Rendered
  /\ activeIndex # -1
  /\ TotalChars(ActiveLine) = 2
  /\ Elapsed(ActiveLine, EffectiveTime) * 100 >= FillDuration100(ActiveLine)
  /\ PercentNum(ActiveLine, EffectiveTime, 1) = ProgressDen(ActiveLine)

(* Line i (1-based) is the active one at its own start time. *)
ActiveAtStart(i) == ActiveIndex(fixedLyrics, fixedLyrics[i].time) = i - 1

(* C18 as stated: for every line that becomes active at its start time the *)
(* fill completes strictly before the line's end: fillDuration < duration, *)
(* and at the end instant progress is 1.                                   *)
C18_FillBeforeEnd ==
  Rendered =>
    \A i \in 1..Len(fixedLyrics) :
      ActiveAtStart(i) =>
        /\ FillDuration100(fixedLyrics[i]) < fixedLyrics[i].duration * 100
        /\ ProgressNum(fixedLyrics[i], fixedLyrics[i].time + fixedLyrics[i].duration)
             = ProgressDen(fixedLyrics[i])

(* A line of 0.3 s is active and at its last instant; its fill is not yet  *)
(* complete.                                                               *)
C18_Witness ==
  /\ Rendered
  /\ activeIndex # -1
  /\ ActiveLine.duration = 3
  /\ ActiveAtStart(activeIndex + 1)
  /\ EffectiveTime = ActiveLine.time + 2
  /\ ProgressNum(ActiveLine, RowTime(activeIndex)) < ProgressDen(ActiveLine)

Rows == 0..(Len(fixedLyrics) - 1)

(* C19: every row but the active one gets distance |i - activeIndex| and   *)
(* is past iff i < activeIndex; its blur is min(8, 1.5 distance) and its   *)
(* scale max(0.85, 1 - 0.05 distance), so blur is in [0, 8], scale in      *)
(* [0.85, 1], blur never falls and scale never rises with the distance.    *)
C19_DistanceFalloff ==
  Rendered =>
    /\ \A i \in Rows :
         ~IsActive(i) =>
           LET d == IF i > activeIndex THEN i - activeIndex ELSE activeIndex - i
               blur == Blur10(IsActive(i), Distance(i))
               scale == Scale100(IsActive(i), Distance(i))
           IN /\ Distance(i) = d
              /\ d >= 1
              /\ IsPast(i) <=> i < activeIndex
              /\ blur = (IF 15 * d < 80 THEN 15 * d ELSE 80)
              /\ scale = (IF 100 - 5 * d > 85 THEN 100 - 5 * d ELSE 85)
              /\ 0 <= blur /\ blur <= 80
              /\ 85 <= scale /\ scale <= 100
    /\ \A i, j \in Rows :
         (~IsActive(i) /\ ~IsActive(j) /\ Distance(i) <= Distance(j)) =>
           /\ Blur10(FALSE, Distance(i)) <= Blur10(FALSE, Distance(j))
           /\ Scale100(FALSE, Distance(i)) >= Scale100(FALSE, Distance(j))

(* The second of eight lines is active: the last row is 6 away, its blur   *)
(* capped at 8 and its scale floored at 0.85; the first row is past.       *)
C19_Witness ==
  /\ Rendered
  /\ Len(fixedLyrics) = 8
  /\ activeIndex = 1
  /\ IsPast(0)
  /\ Distance(7) = 6
  /\ Blur10(IsActive(7), Distance(7)) = 80
  /\ Scale100(IsActive(7), Distance(7)) = 85
  /\ Blur10(IsActive(2), Distance(2)) = 15

----------------------------------------------------------------------------
(* Properties of the rendering layers, checked under SpecLayers *)

DrawCount == Len(layers.drawLog)

(* The height bar i (0-based) had in the j-th Spectrum draw *)
LoggedValue(j, i) == BarValue(layers.drawLog[j].isPlaying, layers.drawLog[j].frame, i)
LoggedHeight(j, i) == BarHeight(LoggedValue(j, i), i)

(* Bar i was drawn once and has been silent in every draw since. *)
SilentAfterFirst(i) ==
  /\ DrawCount >= 2
  /\ \A j \in 2..DrawCount : LoggedValue(j, i) = 0

(* x * 0.95^k, exact while x is a multiple of 20^k *)
RECURSIVE Scale95(_, _)
Scale95(x, k) == IF k = 0 THEN x ELSE Scale95((x \div 20) * 19, k - 1)

(* (H + 10) * 0.95^k - 10: k decays of 0.95 * p - 0.5 from H *)
Decayed(H, k) == Scale95(H + 10 * PeakDen, k) - 10 * PeakDen

SilentHeight == 2 * PeakDen
SilentDecayed == (7 * PeakDen) \div 5

(* C6 as stated: a bar of height H in one frame and silent afterwards has  *)
(* the peak max(0, H * 0.95^k - 0.5 k) at frame k >= 1.                    *)
C6_PeakClosedForm_Linear ==
  \A i \in 0..(barsToRender - 1) :
    SilentAfterFirst(i) =>
      LET k == DrawCount - 1
      IN layers.peaksRef[i + 1] =
           Max(0, Scale95(LoggedHeight(1, i), k) - k * (PeakDen \div 2))

(* C6 amended: a bar of height H in one frame and silent (height 2, the    *)
(* floor of every bar) afterwards has the peak (H + 10) * 0.95^k - 10 at   *)
(* frame k >= 1 as long as the peak of every earlier frame was at least 2; *)
(* after the first frame m whose peak is below 2 it is 2 at frames m + 1,  *)
(* m + 3, ... and 1.4 at frames m + 2, m + 4, ...: it never reaches 0.     *)
C6_PeakDecay ==
  \A i \in 0..(barsToRender - 1) :
    SilentAfterFirst(i) =>
      LET k == DrawCount - 1
          H == LoggedHeight(1, i)
          below == {j \in 1..(k - 1) : Decayed(H, j) < SilentHeight}
          peak == layers.peaksRef[i + 1]
      IN /\ below = {} => peak = Decayed(H, k)
         /\ below # {} =>
              LET m == CHOOSE j \in below : \A j2 \in below : j <= j2
              IN peak = IF (k - m) % 2 = 1 THEN SilentHeight ELSE SilentDecayed
         /\ peak > 0

(* After four draws bar 0, first 11.7 px high, has decayed three times and *)
(* is still above the silent bar, and bar 3, silent throughout, has been   *)
(* reset to 2 and decayed again.                                           *)
C6_Witness ==
  /\ DrawCount = 4
  /\ SilentAfterFirst(0)
  /\ LoggedHeight(1, 0) = 234 * (PeakDen \div 20)
  /\ layers.peaksRef[1] = Decayed(LoggedHeight(1, 0), 3)
  /\ layers.peaksRef[1] > SilentHeight
  /\ SilentAfterFirst(3)
  /\ LoggedHeight(1, 3) = SilentHeight
  /\ layers.peaksRef[4] = SilentDecayed

InUnit(energy) == 0 <= energy.num /\ energy.num <= energy.den

(* C7: the bass, mid and high energies of a Spectrum draw and the bass     *)
(* energy of a Visualizer draw lie in [0, 1], and they are 0 whenever the  *)
(* mounted App is not PLAYING.                                             *)
C7_EnergyBounds ==
  /\ InUnit(layers.bands["Spectrum"].bass)
  /\ InUnit(layers.bands["Spectrum"].mid)
  /\ InUnit(layers.bands["Spectrum"].high)
  /\ InUnit(layers.bands["Visualizer"].bass)
  /\ (mounted /\ playbackState # "PLAYING") =>
       /\ layers.bands["Spectrum"].bass.num = 0
       /\ layers.bands["Spectrum"].mid.num = 0
       /\ layers.bands["Spectrum"].high.num = 0
       /\ layers.bands["Visualizer"].bass.num = 0

(* A playing frame with full bass, no mid and a high band in between. *)
C7_Witness ==
  /\ mounted
  /\ playbackState = "PLAYING"
  /\ layers.bands["Spectrum"].bass.num = layers.bands["Spectrum"].bass.den
  /\ layers.bands["Spectrum"].mid.num = 0
  /\ layers.bands["Spectrum"].high.num > 0
  /\ layers.bands["Spectrum"].high.num < layers.bands["Spectrum"].high.den
  /\ layers.bands["Visualizer"].bass.num = layers.bands["Visualizer"].bass.den

(* C8: the rain pool holds exactly 150 drops, whatever ticks, effect       *)
(* re-runs, rain toggles and recycles have happened.                       *)
C8_RainPoolSize == Len(layers.rainRef) = 150

(* Rain is on, three draws have run, and a drop has restarted at the top. *)
C8_Witness ==
  /\ showRain
  /\ DrawCount >= 3
  /\ layers.nextGen > 3
  /\ \E i \in 1..Len(layers.rainRef) :
       layers.rainRef[i].y = -(layers.rainRef[i].length * YDen)
  /\ \E i \in 1..Len(layers.rainRef) : layers.rainRef[i].y > 0
  /\ Len(layers.rainRef) = 150

LiveEffects == {[layer |-> l, gen |-> layers.effect[l]] : l \in {x \in Layers : layers.effect[x] # 0}}

(* C9: once an effect is torn down, by unmount or by a dependency change,  *)
(* none of its draws runs: every pending animation-frame request and every *)
(* resize listener belongs to a live effect of the mounted component.      *)
C9_NoTickAfterTeardown ==
  /\ layers.tornDownTicks = 0
  /\ \A i \in 1..Len(layers.rafQueue) :
       /\ mounted
       /\ layers.effect[layers.rafQueue[i].layer] = layers.rafQueue[i].gen
       /\ layers.animationRef[layers.rafQueue[i].layer] = layers.rafQueue[i].id
  /\ layers.resizeListeners = LiveEffects
  /\ ~mounted => (layers.rafQueue = << >> /\ layers.resizeListeners = {})

(* Effects were torn down by a dependency change and then by the unmount,  *)
(* with draws in between.                                                  *)
C9_Witness ==
  /\ ~mounted
  /\ layers.nextGen >= 5
  /\ DrawCount >= 3
  /\ layers.animationRef["Spectrum"] # 0
  /\ layers.animationRef["Visualizer"] # 0
  /\ layers.rafQueue = << >>

(* C10: while the analyser is null both layers show silence: the band      *)
(* energies are 0, no bar has any height on the canvas, no draw is         *)
(* pending; and no exception is raised, with or without an analyser.       *)
C10_SilentWithoutAnalyser ==
  /\ ~layers.error
  /\ analyser = "null" =>
       /\ layers.bands = ZeroBands
       /\ \A i \in 1..barsToRender : layers.canvasBars[i] = 0
       /\ layers.rafQueue = << >>
       /\ DrawCount = 0

(* A song was loaded and is PLAYING, the effects re-ran, and the analyser  *)
(* is not there yet.                                                       *)
C10_Witness ==
  /\ mounted
  /\ analyser = "null"
  /\ playbackState = "PLAYING"
  /\ playPromise = "pending"
  /\ showRain

Pending(layer) == {i \in 1..Len(layers.rafQueue) : layers.rafQueue[i].layer = layer}

(* C13: each layer has at most one animation-frame request pending at any  *)
(* time, so an animation frame runs at most one draw of each layer; the    *)
(* pending request of a layer is the one its animationRef names.           *)
C13_OnePendingRequest ==
  \A layer \in Layers :
    /\ Cardinality(Pending(layer)) <= 1
    /\ \A i \in Pending(layer) :
         layers.rafQueue[i].id = layers.animationRef[layer]

(* Both layers are drawing, after effect re-runs and frames. *)
C13_Witness ==
  /\ mounted
  /\ layers.nextGen >= 7
  /\ DrawCount >= 3
  /\ Cardinality(Pending("Spectrum")) = 1
  /\ Cardinality(Pending("Visualizer")) = 1
  /\ layers.nextRafId >= 7

----------------------------------------------------------------------------
(* Properties of the fireworks and the bokeh, checked under SpecEffects *)

Range(seq) == {seq[i] : i \in 1..Len(seq)}

(* A step in which the Spectrum layer drew *)
SpectrumTicked == layers'.spectrumTicks # layers.spectrumTicks

(* Every rocket and glow after the step was there before it. *)
NoSpawn ==
  /\ \A r \in Range(layers'.rocketsRef) :
       \E q \in Range(layers.rocketsRef) :
         r.x = q.x /\ r.targetY = q.targetY /\ r.vy \in {q.vy, q.vy + 4}
  /\ \A g \in Range(layers'.sparklesRef) :
       \E h \in Range(layers.sparklesRef) :
         g.maxLife = h.maxLife /\ g.life \in {h.life, h.life + 1}

(* Every rocket has moved and is kept, or has moved to where it explodes. *)
RocketsAdvance ==
  \A q \in Range(layers.rocketsRef) :
    \/ [q EXCEPT !.y = q.y + q.vy, !.vy = q.vy + 4] \in Range(layers'.rocketsRef)
    \/ /\ (q.vy + 4 >= -2 * PxDen \/ q.y + q.vy <= q.targetY)
       /\ Len(layers'.particlesRef) >= ParticleCount

(* Every particle has moved and faded, and the spent ones are gone. *)
ParticlesDecay ==
  /\ \A p \in Range(layers.particlesRef) :
       \/ p.alpha - 3 <= 0
       \/ [p EXCEPT !.x = p.x + p.vx, !.y = p.y + p.vy, !.vy = p.vy + 3,
                    !.alpha = p.alpha - 3] \in Range(layers'.particlesRef)
  /\ \A p \in Range(layers'.particlesRef) : p.alpha > 0

(* Every glow is one tick older, and the ones at their lifetime are gone. *)
GlowsAge ==
  /\ \A h \in Range(layers.sparklesRef) :
       \/ 2 * (h.life + 1) >= h.maxLife
       \/ \E g \in Range(layers'.sparklesRef) :
            g.life = h.life + 1 /\ g.maxLife = h.maxLife
  /\ \A g \in Range(layers'.sparklesRef) : 2 * g.life < g.maxLife

C14_Step ==
  playbackState' # "PLAYING" =>
    /\ NoSpawn
    /\ (SpectrumTicked /\ showFireworks') => (RocketsAdvance /\ ParticlesDecay)
    /\ (SpectrumTicked /\ showBokeh') => GlowsAge

C14_KeepsTicking ==
  /\ (mounted /\ analyser # "null") => Pending("Spectrum") # {}
  /\ ~mounted => layers.rafQueue = << >>

(* C14: while nothing plays no rocket and no glow is spawned, and every    *)
(* draw of the Spectrum layer still moves, fades, ages and removes the     *)
(* rockets, particles and glows of the enabled effects; the layer has a    *)
(* draw pending for as long as it is mounted, playing or not, and none     *)
(* once it is torn down.                                                   *)
C14_StopHaltsSpawning == []C14_KeepsTicking /\ [][C14_Step]_vars

(* A glow spawned while the song played has reached the age of 40 and      *)
(* holds the alpha it got at age 29 from a silent frame: it aged after the *)
(* song was paused, and another draw is pending.                           *)
C14_Witness ==
  /\ mounted
  /\ playbackState = "PAUSED"
  /\ Len(layers.sparklesRef) = 1
  /\ layers.sparklesRef[1].life = 40
  /\ layers.sparklesRef[1].alpha = 2 * 29 * 3 * (highRangeEnd - highRangeStart) * ByteMax
  /\ Pending("Spectrum") # {}

(* The rocket, after its update, is slow enough or high enough. *)
Exploding(q) == q.vy + 4 >= -2 * PxDen \/ q.y + q.vy <= q.targetY

(* The particles of the pool that were pushed, with alpha 1, in the last   *)
(* draw: they have faded once.                                             *)
FreshParticles(particlesRef) ==
  {i \in 1..Len(particlesRef) : particlesRef[i].alpha = ParticleAlphaDen - 3}

(* Where a particle was before its last update *)
Origin(p) == <<p.x - p.vx, p.y - (p.vy - 3)>>

C15_Step ==
  IF SpectrumTicked /\ showFireworks'
    THEN
      LET before == layers.rocketsRef
          after == layers'.rocketsRef
          particles == layers'.particlesRef
      IN /\ \A q \in Range(before) :
              LET m == [q EXCEPT !.y = q.y + q.vy, !.vy = q.vy + 4]
              IN IF Exploding(q)
                   THEN /\ m \notin Range(after)
                        /\ Cardinality({i \in FreshParticles(particles) :
                                          Origin(particles[i]) = <<m.x, m.y>>})
                             = ParticleCount
                   ELSE m \in Range(after)
         /\ Cardinality(FreshParticles(particles))
              = ParticleCount * Cardinality({i \in 1..Len(before) : Exploding(before[i])})
         /\ \A r \in Range(after) :
              \/ \E q \in Range(before) :
                   r = [q EXCEPT !.y = q.y + q.vy, !.vy = q.vy + 4]
              \/ r.y - (r.vy - 4) = innerHeight * PxDen
    ELSE /\ layers'.rocketsRef = layers.rocketsRef
         /\ layers'.particlesRef = layers.particlesRef

(* C15: in a draw of the enabled fireworks a rocket leaves the pool        *)
(* exactly if, after its update, its vy is >= -2 or its y <= its targetY,  *)
(* and then exactly 40 particles are added with alpha 1 at its position;   *)
(* any other rocket stays, moved, and adds none.                           *)
C15_RocketExplodes == [][C15_Step]_vars

(* The slow rocket, launched at x = 0, stalled below its target of 0.2     *)
(* height and has just exploded: the pool of rockets is empty and the pool *)
(* of particles holds the 40 of its burst, all from one point below the    *)
(* target.                                                                 *)
C15_Witness ==
  /\ layers.rocketsRef = << >>
  /\ Len(layers.particlesRef) = ParticleCount
  /\ FreshParticles(layers.particlesRef) = 1..ParticleCount
  /\ \A i \in 1..ParticleCount :
       Origin(layers.particlesRef[i]) = Origin(layers.particlesRef[1])
  /\ Origin(layers.particlesRef[1])[1] = 0
  /\ Origin(layers.particlesRef[1])[2] > innerHeight * 4

(* alpha is 1 - 0.015 k after k ticks, for a k in 1..66 *)
C16_Alive ==
  \A p \in Range(layers.particlesRef) :
    /\ p.alpha > 0
    /\ p.alpha <= ParticleAlphaDen - 3
    /\ (ParticleAlphaDen - p.alpha) % 3 = 0

C16_Step ==
  (SpectrumTicked /\ showFireworks') =>
    LET kept == SelectSeq(layers.particlesRef, LAMBDA p : p.alpha - 3 > 0)
        new == layers'.particlesRef
    IN /\ Len(new) >= Len(kept)
       /\ \A i \in 1..Len(kept) : new[i].alpha = kept[i].alpha - 3
       /\ \A i \in (Len(kept) + 1)..Len(new) : new[i].alpha = ParticleAlphaDen - 3

(* C16: in every draw of the enabled fireworks each particle loses 0.015   *)
(* alpha and is removed if that leaves it at or below 0; no particle in    *)
(* the pool has alpha <= 0, and every particle's alpha is 1 - 0.015 k for  *)
(* a k of at most 66, so its 67th tick removes it.                         *)
C16_ParticleFade == []C16_Alive /\ [][C16_Step]_vars

(* A particle on its 66th tick, at alpha 0.01: the next tick removes it. *)
C16_Witness ==
  /\ layers.particlesRef # << >>
  /\ \E p \in Range(layers.particlesRef) : p.alpha = ParticleAlphaDen - 66 * 3

(* 0.3 + normHigh * 0.4 of the last draw, and of a frame, times 10 * 70 * 255 *)
LastFactor == 3 * layers.bands["Spectrum"].high.den + 4 * layers.bands["Spectrum"].high.num

FactorOf(frame) ==
  3 * (highRangeEnd - highRangeStart) * ByteMax
    + 4 * (highRangeEnd - highRangeStart) * frame.hi

SilentFactor == FactorOf(ZeroFrame)

InHold(g) == g.life >= 30 /\ 2 * g.life <= g.maxLife - 60

C17_Glow(g) ==
  /\ g.maxLife >= 2 * 90
  /\ g.maxLife <= 2 * 150
  /\ 2 * g.life < g.maxLife
  /\ g.life < 150
  /\ showBokeh =>
       /\ g.life < 30 => g.alpha = 2 * g.life * LastFactor
       /\ 2 * g.life > g.maxLife - 60 => g.alpha = (g.maxLife - 2 * g.life) * LastFactor
  /\ InHold(g) => \E frame \in song \cup {ZeroFrame} : g.alpha = 2 * 29 * FactorOf(frame)

C17_Step ==
  (SpectrumTicked /\ showBokeh') =>
    \A h \in Range(layers.sparklesRef) :
      IF 2 * (h.life + 1) >= h.maxLife
        THEN \A g \in Range(layers'.sparklesRef) :
               ~(g.maxLife = h.maxLife /\ g.life = h.life + 1)
        ELSE \E g \in Range(layers'.sparklesRef) :
               /\ g.maxLife = h.maxLife
               /\ g.life = h.life + 1
               /\ InHold(g) /\ InHold(h) => g.alpha = h.alpha

(* C17 as stated: the alpha of a glow is a function of its age alone (and  *)
(* of its lifetime, which sets its final 30 ticks).  A glow that ages in   *)
(* silence has (age / 30) * 0.3 while it rises, (29 / 30) * 0.3 while it   *)
(* holds and ((maxLife - age) / 30) * 0.3 while it falls, so that is the   *)
(* function.                                                               *)
C17_AlphaOfAgeAlone ==
  \A g \in Range(layers.sparklesRef) :
    g.alpha = IF g.life < 30 THEN 2 * g.life * SilentFactor
              ELSE IF 2 * g.life > g.maxLife - 60
                THEN (g.maxLife - 2 * g.life) * SilentFactor
              ELSE 2 * 29 * SilentFactor

(* C17: a glow's alpha follows its age, its lifetime and the high band:    *)
(* below age 30 it is (age / 30)(0.3 + 0.4 normHigh) with the normHigh of  *)
(* that draw, in its final 30 ticks ((maxLife - age) / 30)(0.3 + 0.4       *)
(* normHigh), and in between it keeps the value it got at age 29; a draw   *)
(* of the enabled bokeh ages every glow by one and removes it when its age *)
(* reaches its lifetime, which lies in 90-150, so no glow is older than    *)
(* 149 ticks.                                                              *)
C17_GlowAlpha ==
  [](\A g \in Range(layers.sparklesRef) : C17_Glow(g)) /\ [][C17_Step]_vars

(* A glow of the longest lifetime on its last tick but one, its alpha      *)
(* nearly back at 0, while the song plays.                                 *)
C17_Witness ==
  /\ playbackState = "PLAYING"
  /\ showBokeh
  /\ \E g \in Range(layers.sparklesRef) :
       /\ g.maxLife = 299
       /\ g.life = 149
       /\ g.alpha = FactorOf(FaintFrame)
       /\ g.alpha # SilentFactor

----------------------------------------------------------------------------
(* Properties of the canvas, checked under SpecCanvas *)

(* clamp(brightness, 0, 1) *)
Clamped ==
  IF spectrumBrightness > 10 THEN AlphaDen ELSE spectrumBrightness * (AlphaDen \div 10)

(* C20 as stated: every fill of a Spectrum draw is composited with         *)
(* clamp(brightness, 0, 1), times its own alpha for a particle and for a   *)
(* glow; the bars are drawn at clamp(brightness, 0, 1) whatever the passes *)
(* before them did.                                                        *)
C20_ClampedBrightness ==
  layers.spectrumTicks > 0 =>
    /\ layers.painted.bars = Clamped
    /\ layers.painted.rain \subseteq {Clamped}
    /\ layers.painted.rockets \subseteq {Clamped}
    /\ layers.painted.particles
         \subseteq {(Clamped \div ParticleAlphaDen) * p.alpha : p \in Range(layers.particlesRef)}
    /\ layers.painted.sparkles
         \subseteq {(Clamped \div GlowDen) * g.alpha : g \in Range(layers.sparklesRef)}

(* Brightness 1.5 and a glow on the canvas: the bars were drawn at the     *)
(* glow's alpha times 1.5, less than half of clamp(1.5, 0, 1) = 1.         *)
C20_Witness ==
  /\ spectrumBrightness = 15
  /\ layers.spectrumTicks > 0
  /\ Len(layers.sparklesRef) = 1
  /\ layers.painted.bars = layers.sparklesRef[1].alpha * 15
  /\ 2 * layers.painted.bars < AlphaDen

----------------------------------------------------------------------------
(* Properties of the peak indicators, checked under SpecLayers *)

(* C24 as stated: after every Spectrum draw the tracked peak of each bar   *)
(* is at least the height the bar was drawn with.                          *)
C24_PeakAtLeastBar ==
  layers.spectrumTicks > 0 =>
    \A i \in 1..barsToRender : layers.peaksRef[i] >= layers.canvasBars[i]

(* A bar drawn twice in a row with the same height: the second draw found  *)
(* the bar not above its peak and decayed the peak to below the bar.       *)
C24_Witness ==
  /\ DrawCount >= 2
  /\ \E i \in 0..(barsToRender - 1) :
       /\ LoggedHeight(DrawCount, i) = LoggedHeight(DrawCount - 1, i)
       /\ layers.canvasBars[i + 1] = LoggedHeight(DrawCount, i)
       /\ layers.peaksRef[i + 1] = DecayPeak(layers.canvasBars[i + 1])
       /\ layers.peaksRef[i + 1] < layers.canvasBars[i + 1]

----------------------------------------------------------------------------
(* Properties of the rows' classification, checked under SpecSync *)

(* The effective time is at or after the end of row i's interval. *)
IntervalOver(i) ==
  EffectiveTime >= fixedLyrics[i + 1].time + OrDefault(fixedLyrics[i + 1].duration)

(* C26 as stated: a row whose interval the effective time has passed is    *)
(* classified past, and so neither active nor future; after the last       *)
(* line's interval, when no line is active, every row is past.             *)
C26_PastOnceOver ==
  Rendered =>
    /\ \A i \in Rows : IntervalOver(i) => (IsPast(i) /\ ~IsActive(i))
    /\ (fixedLyrics # << >> /\ IntervalOver(Len(fixedLyrics) - 1) /\ activeIndex = -1) =>
         \A i \in Rows : IsPast(i)

(* The effective time is past the end of the last of two lines: no line is *)
(* active, the index is -1, and no row is past.                            *)
C26_Witness ==
  /\ Rendered
  /\ Len(fixedLyrics) = 2
  /\ \A i \in Rows : IntervalOver(i)
  /\ activeIndex = -1
  /\ \A i \in Rows : ~IsPast(i) /\ ~IsActive(i)

(* The fill of character idx of the active line, over ProgressDen *)
Fill(idx) == PercentNum(ActiveLine, RowTime(activeIndex), idx)

Chars == 0..(TotalChars(ActiveLine) - 1)

C27_Wipe ==
  (Rendered /\ activeIndex # -1) =>
    /\ \A i, j \in Chars : i < j => Fill(i) >= Fill(j)
    /\ \A j \in Chars : Fill(j) > 0 => \A i \in 0..(j - 1) : Fill(i) = ProgressDen(ActiveLine)
    /\ Cardinality({i \in Chars : 0 < Fill(i) /\ Fill(i) < ProgressDen(ActiveLine)}) <= 1

(* The same line stays active while the effective time does not fall. *)
C27_Step ==
  LET T == currentTime + lyricsOffset
      later == currentTime' + lyricsOffset'
      index == ActiveIndex(fixedLyrics, T)
  IN (/\ lrcPc = "rendered"
      /\ index # -1
      /\ ActiveIndex(fixedLyrics', later) = index
      /\ later >= T) =>
       \A idx \in 0..(TotalChars(fixedLyrics[index + 1]) - 1) :
         PercentNum(fixedLyrics[index + 1], later, idx)
           >= PercentNum(fixedLyrics[index + 1], T, idx)

(* C27: the fill of the active line is a wipe from the left: an earlier    *)
(* character is never filled less than a later one, a character has fill   *)
(* only when every character before it is full, so at most one character   *)
(* is partly filled, and no character's fill falls while the time within   *)
(* the line grows.                                                         *)
C27_LeftToRightWipe == []C27_Wipe /\ [][C27_Step]_vars

(* The line of five characters, 0.9 s in: the first is full, the second    *)
(* partly filled, the others empty.                                        *)
C27_Witness ==
  /\ Rendered
  /\ activeIndex # -1
  /\ TotalChars(ActiveLine) = 5
  /\ Fill(0) = ProgressDen(ActiveLine)
  /\ 0 < Fill(1) /\ Fill(1) < ProgressDen(ActiveLine)
  /\ Fill(2) = 0

----------------------------------------------------------------------------
(* Properties of the normalized timeline under playback, checked under     *)
(* SpecNorm                                                                *)

NonDecreasing64(ls) == \A i \in 1..(Len(ls) - 1) : ~F64Less(ls[i + 1].time, ls[i].time)

(* The time lies in [time[first], time[last] + duration[last]). *)
WithinLyrics64(ls, T) ==
  /\ ls # << >>
  /\ ~F64Less(T, ls[1].time)
  /\ F64Less(T, End64(ls[Len(ls)]))

(* C25 as stated: for a list with non-decreasing timestamps, after         *)
(* normalizeLyrics every effective time from the first line's start to     *)
(* before the last line's end has an active line.                          *)
C25_NoDeadGap ==
  (lrcPc = "rendered" /\ NonDecreasing64(fixedLyrics)
     /\ WithinLyrics64(fixedLyrics, currentTime)) =>
    ActiveIndex64(fixedLyrics, currentTime) # -1

(* Lines at 3.13 s and 12.83 s: the first line's duration is the double    *)
(* 9.7 and its interval ends at 3.13 + 9.7 = 12.829999999999998, one step  *)
(* of the doubles before the second line starts; at that time neither line *)
(* is active.                                                              *)
C25_Witness ==
  /\ lrcPc = "rendered"
  /\ Len(fixedLyrics) = 2
  /\ fixedLyrics[1].time = ParseTime("00:03.13")
  /\ fixedLyrics[2].time = ParseTime("00:12.83")
  /\ currentTime = End64(fixedLyrics[1])
  /\ F64Less(currentTime, fixedLyrics[2].time)
  /\ ActiveIndex64(fixedLyrics, currentTime) = -1

----------------------------------------------------------------------------
(* The flight of the rockets in IEEE 754 double precision.                 *)
(*                                                                         *)
(* A rocket's vy is negative from its launch to its explosion; it is kept  *)
(* as its magnitude, a whole number of 2^-55 px in two limbs of 30 bits    *)
(* (hi * 2^30 + lo) * 2^-55, which holds the double 0.2 and every double   *)
(* from 1 to 32 exactly.  Positions stay exact, in 1/PxDen px: the         *)
(* velocity a position is advanced by is taken to the nearest 1/PxDen px,  *)
(* from which the double is less than 10^-12 px away, and the targets are  *)
(* not that near to a position the rocket takes.                           *)

MaxRockets == 2        \* rockets in flight at a time, double-precision checks

FlightHeight == 1100   \* window.innerHeight of the flights, px

Fifth55 == F64(FALSE, 6710886, 429496730)   \* 0.2
Two55 == F64(FALSE, 67108864, 0)            \* 2.0
Twelve55 == F64(FALSE, 402653184, 0)        \* 12.0
Eighteen55 == F64(FALSE, 603979776, 0)      \* 18.0

(* |vy| in 1/PxDen px, to the nearest *)
Px20(v) == ((v.hi \div 32) * PxDen + 524288) \div 1048576

(* vy: -(random * 6 + 12) for random 0 and for the largest random, which   *)
(* rounds to -18; targetY: height * 0.2 + random * height * 0.4 for random *)
(* 0 and 1.  The rockets differ in x.                                      *)
LaunchSet64 ==
  {[x |-> 0, y |-> innerHeight * PxDen, targetY |-> innerHeight * 4, vy |-> Eighteen55],
   [x |-> PxDen, y |-> innerHeight * PxDen, targetY |-> innerHeight * 4, vy |-> Twelve55],
   [x |-> 2 * PxDen, y |-> innerHeight * PxDen, targetY |-> innerHeight * 12,
    vy |-> Eighteen55]}

(* rocket.y += rocket.vy; rocket.vy += 0.2 *)
MoveRocket64(rocket) ==
  [rocket EXCEPT !.y = @ - Px20(rocket.vy), !.vy = F64Sub(@, Fifth55)]

(* Mutant: the rocket explodes once it rises at no more than 1 px a tick. *)
Explodes64AtOne(rocket) ==
  ~MagLess(F64(FALSE, 33554432, 0), rocket.vy) \/ rocket.y <= rocket.targetY

(* if (rocket.vy >= -2 || rocket.y <= rocket.targetY) *)
Explodes64(rocket) == ~MagLess(Two55, rocket.vy) \/ rocket.y <= rocket.targetY

(* The launch and the rocket loop of a draw, part_000:212-254 *)
RocketLoop64(rocketsRef, isPlaying, random) ==
  LET launched == Launch(rocketsRef, isPlaying, random)
      moved == [i \in 1..Len(launched) |-> MoveRocket64(launched[i])]
  IN SelectSeq(moved, LAMBDA r : ~Explodes64(r))

(* Math.random() < 0.01 + normBass * 0.08 passes or fails *)
RandomFor64(rocketsRef) ==
  {NoRandom}
  \cup (IF Len(rocketsRef) < MaxRockets
          THEN {[launch |-> <<r>>, sparkle |-> << >>] : r \in LaunchSet64}
          ELSE {})

DrawRockets64(isPlaying) ==
  \E random \in RandomFor64(layers.rocketsRef) :
    layers' = [layers EXCEPT
                 !.rocketsRef = RocketLoop64(@, isPlaying, random),
                 !.spectrumTicks = (@ + 1) % 2]

(* An animation frame: the Spectrum layer draws. *)
AnimationFrame64 ==
  /\ mounted
  /\ DrawRockets64(playbackState = "PLAYING")
  /\ UNCHANGED <<mounted, playbackState, playPromise, audio, analyser, showRain>>
  /\ UNCHANGED effectSettings
  /\ UNCHANGED lyricVars
  /\ UNCHANGED appVars

(* togglePlay, App.tsx:318-328: isPlaying is new, so the draw effect runs  *)
(* again and draws at once.                                                *)
TogglePlay64 ==
  /\ mounted
  /\ playbackState' = IF playbackState = "PLAYING" THEN "PAUSED" ELSE "PLAYING"
  /\ audio' = IF playbackState = "PLAYING" THEN Pause(audio) ELSE Play(audio)
  /\ DrawRockets64(playbackState' = "PLAYING")
  /\ UNCHANGED <<mounted, playPromise, analyser, showRain>>
  /\ UNCHANGED effectSettings
  /\ UNCHANGED lyricVars
  /\ UNCHANGED appVars

(* A song plays in a window of 1100 px with the fireworks enabled. *)
InitFlight ==
  /\ mounted = TRUE
  /\ playbackState = "PLAYING"
  /\ playPromise = "none"
  /\ audio = "playing"
  /\ analyser = "AnalyserNode"
  /\ showRain = FALSE
  /\ showFireworks = TRUE
  /\ showBokeh = FALSE
  /\ spectrumBrightness = 10
  /\ innerHeight = FlightHeight
  /\ song = {FaintFrame}
  /\ layers = [MountLayers(0, Props("PLAYING", "AnalyserNode", FALSE, ZeroFrame))
                 EXCEPT !.history = FALSE]
  /\ LyricsAtRest
  /\ AppWith(CHOOSE loaded \in Songs : TRUE)

NextFlight == AnimationFrame64 \/ TogglePlay64

SpecFlight == InitFlight /\ [][NextFlight]_vars

----------------------------------------------------------------------------
(* Properties of the rockets' flight, checked under SpecFlight *)

(* The speed a rocket at x was launched with, in 1/PxDen px a tick *)
LaunchSpeed(x) == Px20((CHOOSE r \in LaunchSet64 : r.x = x).vy)

(* The updates a rocket has had: each took 0.2 px a tick off its speed. *)
Ticks(rocket) == (LaunchSpeed(rocket.x) - Px20(rocket.vy)) \div 4

Flying == layers.rocketsRef

(* Rockets are pushed at the end of the pool, so the older is the earlier. *)
OlderFirst ==
  \A i, j \in 1..Len(Flying) : i < j => Ticks(Flying[i]) > Ticks(Flying[j])

(* A draw keeps the rockets in their order, each one tick older, drops     *)
(* those that explode, and adds at most one, which has had its first tick. *)
C28_Step ==
  layers'.spectrumTicks # layers.spectrumTicks =>
    LET after == layers'.rocketsRef
        new == {i \in 1..Len(after) : Ticks(after[i]) = 1}
    IN /\ Cardinality(new) <= 1
       /\ \A i \in 1..Len(after) :
            i \notin new =>
              \E j \in 1..Len(Flying) :
                /\ after[i].x = Flying[j].x
                /\ Ticks(after[i]) = Ticks(Flying[j]) + 1
       /\ playbackState' # "PLAYING" => new = {}

(* C28 as stated: a rocket explodes in one of its first 80 ticks, so the   *)
(* pool holds, after a draw, only rockets that have had fewer than 80, and *)
(* never more than 80 rockets.                                             *)
C28_EightyTicks ==
  /\ \A i \in 1..Len(Flying) : Ticks(Flying[i]) >= 1 /\ Ticks(Flying[i]) < 80
  /\ OlderFirst
  /\ Len(Flying) <= 80

C28_Flying ==
  /\ \A i \in 1..Len(Flying) : Ticks(Flying[i]) >= 1 /\ Ticks(Flying[i]) < 81
  /\ OlderFirst
  /\ Len(Flying) <= 80

(* C28: a rocket explodes in one of its first 81 ticks of the enabled      *)
(* fireworks, a draw launches at most one rocket, and the rockets in the   *)
(* pool after a draw have had different numbers of ticks from 1 to 80, so  *)
(* the pool holds at most 80 of them then (and 81 within a draw, between   *)
(* the launch and the rocket loop).                                        *)
C28_RocketsBounded == []C28_Flying /\ [][C28_Step]_vars

(* A rocket launched at -18 has had 80 ticks, is still below its target    *)
(* and still rising at more than 2 px a tick by the rounding of its 80     *)
(* additions of 0.2; a second rocket is in flight behind it.               *)
C28_Witness ==
  /\ Len(Flying) = 2
  /\ MagLess(Two55, Flying[1].vy)
  /\ Px20(Flying[1].vy) = 2 * PxDen
  /\ Ticks(Flying[1]) = 80
  /\ Flying[1].y > Flying[1].targetY

----------------------------------------------------------------------------
(* The toolbar and the lyric rows: the three popovers, the lyric colour,   *)
(* the lyric size, a second .lrc upload and seeking, with a song loaded    *)
(* and paused.                                                             *)

MaxRowLines == 2       \* lines of an .lrc file, row checks

(* App.tsx:356-358 and 539: two colours of the palette, two positions of   *)
(* the size slider (tenths)                                                *)
Colors == {"#ffffff", "#ef4444"}
FontSizeScales == {10, 15}

(* Files of one or two lines that differ in their text only, or in length *)
RowLrcs ==
  {ls \in LrcInputs({0, 50}, Texts, MaxRowLines) :
     \A n \in 1..Len(ls) : ls[n].time = 50 * (n - 1) /\ (n = 2 => ls[n].text = "hi")}

(* handleLrcFileChange, App.tsx:282-292: the button is enabled with a song *)
(* loaded; the file is handed to the reader.                               *)
HandleLrcFileChange ==
  /\ songMetadata # << >>
  /\ lrcPc = "rendered"
  /\ tempLyrics' \in RowLrcs
  /\ lrcPc' = "read"
  /\ UNCHANGED <<lyrics, fixedLyrics, currentTime, lyricsOffset, rows>>
  /\ UNCHANGED layerVars
  /\ UNCHANGED appVars

(* useState: the updates a handler queues on one state are applied in      *)
(* order; "false" replaces the state and "not" is the updater              *)
(* prev => !prev.                                                          *)
RECURSIVE ApplyUpdates(_, _)
ApplyUpdates(state, updates) ==
  IF updates = << >> THEN state
  ELSE ApplyUpdates(IF Head(updates) = "not" THEN ~state ELSE FALSE, Tail(updates))

Setters == {"setShowColorPicker", "setShowBgColorPicker", "setShowSettings"}

(* handleToggle, App.tsx:360-366: the updates it queues on the state of    *)
(* `target` when called with `setter`                                      *)
ToggleUpdates(setter, target) ==
  << "false" >> \o (IF setter = target THEN << "not" >> ELSE << >>)

(* handleToggle(setter), from the three toolbar buttons, App.tsx:502-532 *)
HandleToggleOf(setter) ==
  /\ showColorPicker' =
       ApplyUpdates(showColorPicker, ToggleUpdates(setter, "setShowColorPicker"))
  /\ showBgColorPicker' =
       ApplyUpdates(showBgColorPicker, ToggleUpdates(setter, "setShowBgColorPicker"))
  /\ showSettings' =
       ApplyUpdates(showSettings, ToggleUpdates(setter, "setShowSettings"))
  /\ UNCHANGED <<customColor, fontSizeScale>>
  /\ UNCHANGED songVars
  /\ UNCHANGED lyricVars
  /\ UNCHANGED layerVars

HandleToggle == \E setter \in Setters : HandleToggleOf(setter)

(* A swatch of the lyric colour popover, App.tsx:508:                      *)
(* setCustomColor(c); setShowColorPicker(false), and LyricsView renders.   *)
SetCustomColor ==
  /\ showColorPicker
  /\ lrcPc = "rendered"
  /\ customColor' \in Colors
  /\ showColorPicker' = FALSE
  /\ rows' = LyricsViewRows(rows, lyrics, fixedLyrics, EffectiveTime,
                            customColor', fontSizeScale, geminiLoading)
  /\ UNCHANGED <<tempLyrics, lyrics, fixedLyrics, lrcPc, currentTime, lyricsOffset>>
  /\ UNCHANGED <<fontSizeScale, showBgColorPicker, showSettings>>
  /\ UNCHANGED songVars
  /\ UNCHANGED layerVars

(* A swatch of the background popover, App.tsx:523:                        *)
(* setDominantColor(c); setShowBgColorPicker(false)                        *)
SetDominantColor ==
  /\ showBgColorPicker
  /\ showBgColorPicker' = FALSE
  /\ UNCHANGED <<customColor, fontSizeScale, showColorPicker, showSettings>>
  /\ UNCHANGED songVars
  /\ UNCHANGED lyricVars
  /\ UNCHANGED layerVars

(* The Lyrics Size slider of the settings popover, App.tsx:539 *)
SetFontSizeScale ==
  /\ showSettings
  /\ lrcPc = "rendered"
  /\ fontSizeScale' \in FontSizeScales
  /\ rows' = LyricsViewRows(rows, lyrics, fixedLyrics, EffectiveTime,
                            customColor, fontSizeScale', geminiLoading)
  /\ UNCHANGED <<tempLyrics, lyrics, fixedLyrics, lrcPc, currentTime, lyricsOffset>>
  /\ UNCHANGED <<customColor, showColorPicker, showBgColorPicker, showSettings>>
  /\ UNCHANGED songVars
  /\ UNCHANGED layerVars

(* A song was loaded, played and paused; no lyrics yet. *)
InitRows ==
  /\ mounted = TRUE
  /\ playbackState = "PAUSED"
  /\ playPromise = "none"
  /\ audio = "paused"
  /\ analyser = "AnalyserNode"
  /\ showRain = FALSE
  /\ showFireworks = FALSE
  /\ showBokeh = TRUE
  /\ spectrumBrightness = 10
  /\ innerHeight = ViewHeight
  /\ song = FrameSet
  /\ layers = MountLayers(0, Props("PAUSED", "AnalyserNode", FALSE, ZeroFrame))
  /\ LyricsAtRest
  /\ AppWith(CHOOSE loaded \in Songs : TRUE)

NextRows ==
  \/ HandleLrcFileChange
  \/ SetLyrics
  \/ RenderLyrics
  \/ HandleSeek
  \/ HandleToggle
  \/ SetCustomColor
  \/ SetDominantColor
  \/ SetFontSizeScale

SpecRows == InitRows /\ [][NextRows]_vars

----------------------------------------------------------------------------
(* Properties of the popovers, checked under SpecRows *)

Visible(setter) ==
  IF setter = "setShowColorPicker" THEN showColorPicker
  ELSE IF setter = "setShowBgColorPicker" THEN showBgColorPicker
  ELSE showSettings

AtMostOneOpen == Cardinality({setter \in Setters : Visible(setter)}) <= 1

(* The toggle of `setter` negates its popover and closes the other two. *)
ExclusiveToggle(setter) ==
  /\ HandleToggleOf(setter)
  /\ Visible(setter)' = ~Visible(setter)
  /\ \A other \in Setters \ {setter} : ~Visible(other)'

(* C29: handleToggle is an exclusive toggle: at most one popover is open   *)
(* at any time, and from every state a toggle sets the popover's           *)
(* visibility to the negation of its previous value and closes the other   *)
(* two.                                                                    *)
C29_ExclusiveToggle ==
  /\ AtMostOneOpen
  /\ \A setter \in Setters : ENABLED ExclusiveToggle(setter)

(* The settings popover is open and the others are closed: its button is   *)
(* the next toggle.                                                        *)
C29_Witness ==
  /\ showSettings
  /\ ~showColorPicker
  /\ ~showBgColorPicker
  /\ fontSizeScale = 15

----------------------------------------------------------------------------
(* Properties of the memoized rows, checked under SpecRows *)

(* What LyricsView would hand to its rows now: rows that are not memoized  *)
(* render with these props.                                                *)
FreshRows ==
  IF geminiLoading \/ Len(lyrics) = 0 THEN << >>
  ELSE RowProps(fixedLyrics, activeIndex, EffectiveTime, customColor, fontSizeScale)

Classified(prev, next) ==
  /\ prev.isPast = next.isPast
  /\ prev.distance = next.distance
  /\ prev.fillColor = next.fillColor
  /\ prev.fontSizeScale = next.fontSizeScale

(* A render of LyricsView: a row mounted before and after it keeps its     *)
(* last output or renders with the new props.                              *)
C21_Step ==
  lrcPc' = "rendered" =>
    \A n \in 1..Min(Len(rows), Len(rows')) :
      LET prev == rows[n]
          next == FreshRows'[n]
      IN /\ (~prev.isActive /\ ~next.isActive) =>
              rows'[n] = IF Classified(prev, next) THEN prev ELSE next
         /\ prev.isActive # next.isActive => rows'[n] = next

(* C21: a lyric row that stays inactive skips its render exactly when its  *)
(* past flag, distance, fill colour and font-size scale are unchanged, and *)
(* renders again whenever one of these or its active flag changes.         *)
C21_InactiveRowSkips == [][C21_Step]_vars

(* An inactive row kept its output through a second upload that changed    *)
(* its text, and rendered again when the size changed.                     *)
C21_Witness ==
  /\ lrcPc = "rendered"
  /\ \E n \in 1..Len(rows) :
       /\ ~rows[n].isActive
       /\ rows[n].line # fixedLyrics[n]
       /\ rows[n].fontSizeScale = 15
       /\ fontSizeScale = 15

(* What a row shows: its text, the colour of its text and its size *)
Shown(props) ==
  [text |-> props.line.text,
   color |-> IF props.isActive \/ props.isPast THEN props.fillColor ELSE "white",
   fontSizeScale |-> props.fontSizeScale]

(* C22: the memoized rows are observationally equivalent to rows that are  *)
(* not memoized: whenever LyricsView has rendered, every displayed row     *)
(* shows the text, colour and size of its current props.                   *)
C22_RowsShowCurrentProps ==
  lrcPc = "rendered" =>
    /\ Len(rows) = Len(FreshRows)
    /\ \A n \in 1..Len(rows) : Shown(rows[n]) = Shown(FreshRows[n])

(* The active row still shows the colour and size it had before the user   *)
(* changed both, and an inactive row the text of the file uploaded before. *)
C22_Witness ==
  /\ lrcPc = "rendered"
  /\ \E n \in 1..Len(rows) :
       /\ rows[n].isActive
       /\ FreshRows[n].isActive
       /\ rows[n].fillColor # customColor
       /\ rows[n].fontSizeScale # fontSizeScale
  /\ \E n \in 1..Len(rows) :
       /\ ~rows[n].isActive
       /\ rows[n].line.text # fixedLyrics[n].text

----------------------------------------------------------------------------
(* Songs and generated lyrics: songs are loaded, played and paused while   *)
(* the lyric service answers.                                              *)

(* generateLyrics, geminiService.ts:6-25: the LRC text the service returns *)
(* for a song, here one line that names the song                           *)
GeneratedLrc(metadata) == << [time |-> 0, text |-> metadata.title] >>

(* handleGenerateLyrics up to its await, App.tsx:309-313; the button is    *)
(* disabled without a song and while loading (480).  LyricsView shows its  *)
(* spinner.                                                                *)
HandleGenerateLyrics ==
  /\ mounted
  /\ songMetadata # << >>
  /\ ~geminiLoading
  /\ geminiLoading' = TRUE
  /\ generateLyricsCalls' = generateLyricsCalls \cup {songMetadata}
  /\ rows' = LyricsViewRows(rows, lyrics, fixedLyrics, EffectiveTime,
                            customColor, fontSizeScale, geminiLoading')
  /\ UNCHANGED <<tempLyrics, lyrics, fixedLyrics, lrcPc, currentTime, lyricsOffset>>
  /\ UNCHANGED <<songMetadata, customColor, fontSizeScale>>
  /\ UNCHANGED popoverVars
  /\ UNCHANGED layerVars

(* handleGenerateLyrics after its await, App.tsx:313-315:                  *)
(* setLyrics(parseLrc(lrcText)); setGeminiLoading(false), and LyricsView   *)
(* renders the rows.                                                       *)
GenerateLyricsResolved ==
  /\ mounted
  /\ \E call \in generateLyricsCalls :
       /\ tempLyrics' = GeneratedLrc(call)
       /\ generateLyricsCalls' = generateLyricsCalls \ {call}
  /\ lyrics' = parseLrc(tempLyrics')
  /\ fixedLyrics' = normalizeLyrics(lyrics')
  /\ geminiLoading' = FALSE
  /\ rows' = LyricsViewRows(rows, lyrics', fixedLyrics', EffectiveTime,
                            customColor, fontSizeScale, geminiLoading')
  /\ UNCHANGED <<lrcPc, currentTime, lyricsOffset>>
  /\ UNCHANGED <<songMetadata, customColor, fontSizeScale>>
  /\ UNCHANGED popoverVars
  /\ UNCHANGED layerVars

(* The App at rest, the layers without their history. *)
InitSong ==
  /\ mounted = TRUE
  /\ playbackState = "STOPPED"
  /\ playPromise = "none"
  /\ audio = "empty"
  /\ analyser = "null"
  /\ showRain = FALSE
  /\ showFireworks = FALSE
  /\ showBokeh = TRUE
  /\ spectrumBrightness = 10
  /\ innerHeight = ViewHeight
  /\ song = FrameSet
  /\ layers = [MountLayers(0, Props("STOPPED", "null", FALSE, ZeroFrame))
                 EXCEPT !.history = FALSE]
  /\ LyricsAtRest
  /\ AppAtRest

NextSong ==
  \/ HandleFileChange
  \/ PlayResolved
  \/ PlayRejected
  \/ TogglePlay
  \/ OnEnded
  \/ HandleGenerateLyrics
  \/ GenerateLyricsResolved

SpecSong == InitSong /\ [][NextSong]_vars

----------------------------------------------------------------------------
(* Properties of the loaded song, checked under SpecSong *)

(* C23: a lyric text that arrives after a new song was loaded is not       *)
(* installed: at every moment the lyrics are empty or were parsed from the *)
(* text generated for the loaded song.                                     *)
C23_LyricsOfLoadedSong ==
  \/ lyrics = << >>
  \/ /\ songMetadata # << >>
     /\ lyrics = parseLrc(GeneratedLrc(songMetadata))

(* The lyrics generated for one song are shown while the other is loaded,  *)
(* and no request is awaited.                                              *)
C23_Witness ==
  /\ songMetadata # << >>
  /\ generateLyricsCalls = {}
  /\ ~geminiLoading
  /\ \E other \in Songs \ {songMetadata} :
       /\ lyrics = parseLrc(GeneratedLrc(other))
       /\ Len(rows) = 1
       /\ rows[1].line.text = other.title

(* animate and its effect, App.tsx:216-238: a frame of the polling loop is *)
(* requested exactly while playbackState is PLAYING                        *)
Polling == mounted /\ playbackState = "PLAYING"

Sounding == audio \in {"loading", "playing"}

(* C30: playbackState is PLAYING only while the audio element is playing   *)
(* or about to: after a rejected play(), or the end of the song, the state *)
(* is not PLAYING and the polling loop does not run.                       *)
C30_PlayingOnlyWhileSounding ==
  /\ playbackState = "PLAYING" => Sounding
  /\ Polling => Sounding

(* play() was rejected after a file load: the element has no playable      *)
(* source, the state is PLAYING and the polling loop runs.                 *)
C30_Witness ==
  /\ songMetadata # << >>
  /\ playPromise = "none"
  /\ audio = "failed"
  /\ playbackState = "PLAYING"
  /\ Polling
====
